---------------------------- MODULE Spec2Model ----------------------------
(***************************************************************************)
(* Connection/session protocol layer of talkiebee.                         *)
(*                                                                         *)
(* Two WebSocketService classes exist in the repository:                   *)
(*   - the callback-based one ("buzz-service"),                            *)
(*     src/src/services/audio-service.ts lines 398-658;                    *)
(*   - the event-listener one ("ws-service"), src/unnamed/part_002.        *)
(* Each is modelled as an object record (fields named as in the source),   *)
(* the transports it created, the timers it armed, and the events it       *)
(* delivered to its caller during the last step.                           *)
(*                                                                         *)
(* Beside them: the base64 transcoding and format detection of             *)
(* AudioService, the event bus of the event-listener service, and the      *)
(* playback path of AudioService with its temporary files.  A run drives   *)
(* one of these components, chosen by svc.                                 *)
(***************************************************************************)
EXTENDS Integers, Sequences, FiniteSets, TLC

VARIABLES
  svc,      \* the component the run drives: "buzz" | "ws" | "chat" | "frames" | "audio" | "bus" | "play"
  buzz,     \* fields of the callback-based WebSocketService
  bsock,    \* transports created by it: id -> [readyState, handlers]
  btimers,  \* reconnect timers it armed and that have not fired / been cleared
  bhist,    \* history: consecutive abnormal closures, onMaxRetryExceeded calls, destroy() called
  wss,      \* fields of the event-listener WebSocketService
  wsock,    \* transports created by it, with the connect() call that made each
  wtimers,  \* reconnect timers it armed and that have not fired / been cleared
  whist,    \* history: failure notifications since the last open; no caller call since
  wjobs,    \* Blob conversions it started and whose promise has not settled yet
  bus,      \* the event bus: listeners per kind, and the last emission
  play,     \* playback: the player and the temporary files in the cache
  audio,    \* the transcoder's run: buffer, base64 string, decoded bytes, format
  op,       \* the operation / event handled by the last step
  emitted,  \* callbacks / events delivered to the caller by the last step
  wire      \* frames written to a transport by the last step

vars ==
  <<svc, buzz, bsock, btimers, bhist, wss, wsock, wtimers, whist, wjobs, audio,
    bus, play, op, emitted, wire>>

-----------------------------------------------------------------------------
(* Bounds of the model *)

\* transports the callback-based service may create in a run
MaxSockets == 7

\* transports the event-listener service may create in a run
MaxWsSockets == 3

\* the same, in a run in which the server also delivers messages
MaxChatSockets == 2

\* the same, in a run of one connection receiving every kind of frame
MaxFrameSockets == 1

\* Blob conversions pending at a time
MaxJobs == 1

-----------------------------------------------------------------------------
(* Shared vocabulary *)

CONNECTING == "CONNECTING"
OPEN       == "OPEN"
CLOSING    == "CLOSING"
CLOSED     == "CLOSED"
NONE       == "NONE"          \* slot of a transport not created yet

\* close codes a close event may carry: normal closure, abnormal closure
CloseCodes == {1000, 1006}

\* server addresses a caller may pass; "" makes the WebSocket constructor throw
Urls == {"", "wss://relay"}

Min(a, b) == IF a < b THEN a ELSE b

RECURSIVE Pow2(_)
Pow2(n) == IF n <= 0 THEN 1 ELSE 2 * Pow2(n - 1)

Ev(e, a) == [ev |-> e, arg |-> a]

\* number of events of kind e in a sequence of delivered events
RECURSIVE CountEv(_, _)
CountEv(s, e) ==
  IF s = <<>> THEN 0
  ELSE (IF Head(s).ev = e THEN 1 ELSE 0) + CountEv(Tail(s), e)

SockIds == 1..MaxSockets

\* id the next created transport gets: creation order
NextSock(socks) ==
  IF \E i \in SockIds : socks[i].readyState = NONE
  THEN CHOOSE i \in SockIds :
         /\ socks[i].readyState = NONE
         /\ \A j \in SockIds : socks[j].readyState = NONE => i <= j
  ELSE 0

\* handle setTimeout returns: the smallest id no live handle uses
FreshTimer(tms, held) ==
  CHOOSE i \in 1..(Cardinality(tms) + 2) :
    /\ i # held
    /\ \A t \in tms : t.id # i
    /\ \A j \in 1..(i - 1) : j = held \/ \E t \in tms : t.id = j

-----------------------------------------------------------------------------
(***************************************************************************)
(* The callback-based WebSocketService (buzz-service).                     *)
(* A "world" w is [o, socks, timers, hist, out, wire]: the object, its     *)
(* transports, its armed timers, the history counters, and the callbacks   *)
(* invoked and frames written so far in the current step.  Every method is *)
(* an operator from worlds to worlds, so that a handler calling another    *)
(* method is one step.                                                     *)
(***************************************************************************)

BuzzMaxReconnectAttempts == 5
BuzzReconnectDelay == 1000
BuzzDelayCap == 120000
NormalClosure == 1000

BuzzInitObj ==
  [ ws                |-> 0,      \* null, or the id of the current transport
    callbacks         |-> FALSE,  \* {} , or the caller's callbacks registered
    reconnectAttempts |-> 0,
    serverUrl         |-> "",
    isConnecting      |-> FALSE,
    reconnectTimeout  |-> 0,      \* null, or the handle of the last timer
    shouldReconnect   |-> TRUE,
    isDestroyed       |-> FALSE ]

NoSock == [readyState |-> NONE, handlers |-> FALSE]

\* this.ws?.readyState
BuzzReadyState(w) == IF w.o.ws = 0 THEN NONE ELSE w.socks[w.o.ws].readyState

\* this.callbacks.onX?.(arg): delivered only when callbacks are registered
BuzzCall(w, e, a) ==
  IF w.o.callbacks
  THEN [w EXCEPT !.out = Append(@, Ev(e, a)),
                 !.hist.fired = IF e = "onMaxRetryExceeded" /\ w.hist.run >= 0
                                THEN @ + 1 ELSE @]
  ELSE w

BuzzClearReconnectTimeout(w) ==
  IF w.o.reconnectTimeout # 0
  THEN [w EXCEPT !.timers = {t \in @ : t.id # w.o.reconnectTimeout},
                 !.o.reconnectTimeout = 0]
  ELSE w

\* WebSocket.close(): starts the closing handshake of a live transport
SockCloseCall(s) ==
  IF s.readyState \in {CONNECTING, OPEN} THEN [s EXCEPT !.readyState = CLOSING] ELSE s

\* variant: connect() that returns early only when destroyed or already open
BuzzConnectGuardOpenOnly(w) ==
  IF w.o.isDestroyed THEN "destroyed"
  ELSE IF BuzzReadyState(w) = OPEN THEN "open"
  ELSE ""

\* the early returns of connect(): "" when connect() goes on
BuzzConnectGuard(w) ==
  IF w.o.isDestroyed THEN "destroyed"
  ELSE IF w.o.isConnecting \/ BuzzReadyState(w) = CONNECTING THEN "connecting"
  ELSE IF BuzzReadyState(w) = OPEN THEN "open"
  ELSE ""

\* variant: the replaced transport is closed with its handlers left attached
BuzzDropOldKeepsHandlers(w) ==
  IF w.o.ws # 0
  THEN [w EXCEPT !.socks[w.o.ws] = SockCloseCall(@), !.o.ws = 0]
  ELSE w

BuzzDropOld(w) ==
  IF w.o.ws # 0
  THEN [w EXCEPT !.socks[w.o.ws] = [SockCloseCall(@) EXCEPT !.handlers = FALSE],
                 !.o.ws = 0]
  ELSE w

\* variant: connect() that gives the caller a fresh retry budget
BuzzConnectFreshBudget(w, url) ==
  IF BuzzConnectGuard(w) # "" THEN w
  ELSE
    LET w1 == BuzzClearReconnectTimeout(w)
        w2 == [w1 EXCEPT !.o.serverUrl = url,
                         !.o.isConnecting = TRUE,
                         !.o.shouldReconnect = TRUE,
                         !.o.reconnectAttempts = 0]
        w3 == BuzzDropOld(w2)
        n  == NextSock(w3.socks)
    IN IF url = ""
       THEN LET w4 == [w3 EXCEPT !.o.isConnecting = FALSE]
            IN IF ~w4.o.isDestroyed
               THEN BuzzCall(w4, "onError", "Failed to create WebSocket connection")
               ELSE w4
       ELSE [w3 EXCEPT !.socks[n] = [readyState |-> CONNECTING, handlers |-> TRUE],
                       !.o.ws = n]

BuzzConnect(w, url) ==
  IF BuzzConnectGuard(w) # "" THEN w
  ELSE
    LET w1 == BuzzClearReconnectTimeout(w)
        w2 == [w1 EXCEPT !.o.serverUrl = url,
                         !.o.isConnecting = TRUE,
                         !.o.shouldReconnect = TRUE]
        w3 == BuzzDropOld(w2)
        n  == NextSock(w3.socks)
    IN IF url = ""
       THEN \* new WebSocket(url) throws: the catch block
            LET w4 == [w3 EXCEPT !.o.isConnecting = FALSE]
            IN IF ~w4.o.isDestroyed
               THEN BuzzCall(w4, "onError", "Failed to create WebSocket connection")
               ELSE w4
       ELSE [w3 EXCEPT !.socks[n] = [readyState |-> CONNECTING, handlers |-> TRUE],
                       !.o.ws = n]

\* connect() creates a transport here: the model needs a free slot for it
BuzzCreates(w, url) == BuzzConnectGuard(w) = "" /\ url # ""

\* variant: the exponent taken after the increment, not before
BuzzDelayShifted(n) == Min(BuzzReconnectDelay * Pow2(n), BuzzDelayCap)

BuzzDelay(n) == Min(BuzzReconnectDelay * Pow2(n - 1), BuzzDelayCap)

BuzzScheduleReconnect(w) ==
  IF \/ w.o.isDestroyed
     \/ ~w.o.shouldReconnect
     \/ w.o.reconnectAttempts >= BuzzMaxReconnectAttempts
  THEN IF w.o.reconnectAttempts >= BuzzMaxReconnectAttempts /\ ~w.o.isDestroyed
       THEN BuzzCall(w, "onMaxRetryExceeded", ToString(w.o.reconnectAttempts))
       ELSE w
  ELSE
    LET w1 == BuzzClearReconnectTimeout(w)
        n  == w1.o.reconnectAttempts + 1
        id == FreshTimer(w1.timers, 0)
    IN [w1 EXCEPT !.o.reconnectAttempts = n,
                  !.o.reconnectTimeout = id,
                  !.timers = @ \cup {[id |-> id, delay |-> BuzzDelay(n), n |-> n]}]

BuzzOnOpen(w) ==
  IF w.o.isDestroyed THEN w
  ELSE BuzzCall([w EXCEPT !.o.isConnecting = FALSE,
                          !.o.reconnectAttempts = 0,
                          !.hist.run = 0,
                          !.hist.fired = 0],
                "onConnect", "")

\* history only: the run of consecutive abnormal closures handled with
\* shouldReconnect set and callbacks registered; -1 once another closure
\* was handled, until the retry counter is reset
BuzzRunAfterClose(w, code) ==
  IF w.hist.run >= 0 /\ code # NormalClosure /\ w.o.shouldReconnect /\ w.o.callbacks
  THEN [w.hist EXCEPT !.run = @ + 1]
  ELSE [w.hist EXCEPT !.run = -1, !.fired = 0]

\* variant: the budget test of the close handler off by one (> for >=)
BuzzOnCloseStrict(w, code) ==
  IF w.o.isDestroyed THEN w
  ELSE
    LET w1 == [w EXCEPT !.o.isConnecting = FALSE,
                        !.hist = BuzzRunAfterClose(w, code)]
        w2 == BuzzCall(w1, "onDisconnect", "")
    IN IF /\ code # NormalClosure
          /\ w2.o.shouldReconnect
          /\ w2.o.reconnectAttempts < BuzzMaxReconnectAttempts
       THEN BuzzScheduleReconnect(w2)
       ELSE IF /\ code # NormalClosure
               /\ w2.o.reconnectAttempts > BuzzMaxReconnectAttempts
            THEN BuzzCall(w2, "onMaxRetryExceeded", ToString(w2.o.reconnectAttempts))
            ELSE w2

\* variant: a close handler that reconnects whatever the close code
BuzzOnCloseAnyCode(w, code) ==
  IF w.o.isDestroyed THEN w
  ELSE
    LET w1 == [w EXCEPT !.o.isConnecting = FALSE,
                        !.hist = BuzzRunAfterClose(w, code)]
        w2 == BuzzCall(w1, "onDisconnect", "")
    IN IF w2.o.shouldReconnect /\ w2.o.reconnectAttempts < BuzzMaxReconnectAttempts
       THEN BuzzScheduleReconnect(w2)
       ELSE w2

BuzzOnClose(w, code) ==
  IF w.o.isDestroyed THEN w
  ELSE
    LET w1 == [w EXCEPT !.o.isConnecting = FALSE,
                        !.hist = BuzzRunAfterClose(w, code)]
        w2 == BuzzCall(w1, "onDisconnect", "")
    IN IF /\ code # NormalClosure
          /\ w2.o.shouldReconnect
          /\ w2.o.reconnectAttempts < BuzzMaxReconnectAttempts
       THEN BuzzScheduleReconnect(w2)
       ELSE IF /\ code # NormalClosure
               /\ w2.o.reconnectAttempts >= BuzzMaxReconnectAttempts
            THEN BuzzCall(w2, "onMaxRetryExceeded", ToString(w2.o.reconnectAttempts))
            ELSE w2

BuzzOnError(w) ==
  IF w.o.isDestroyed THEN w
  ELSE BuzzCall([w EXCEPT !.o.isConnecting = FALSE],
                "onError", "WebSocket connection error")

\* variant: disconnect() that leaves the reconnect timer armed
BuzzDisconnectKeepsTimer(w) ==
  LET w2 == BuzzDropOld([w EXCEPT !.o.shouldReconnect = FALSE])
  IN [w2 EXCEPT !.o.isConnecting = FALSE,
                !.o.reconnectAttempts = 0,
                !.hist.run = 0,
                !.hist.fired = 0]

BuzzDisconnect(w) ==
  LET w1 == BuzzClearReconnectTimeout([w EXCEPT !.o.shouldReconnect = FALSE])
      w2 == BuzzDropOld(w1)
  IN [w2 EXCEPT !.o.isConnecting = FALSE,
                !.o.reconnectAttempts = 0,
                !.hist.run = 0,
                !.hist.fired = 0]

\* history: hist.dead records that destroy() has been called
BuzzDestroy(w) ==
  LET w1 == BuzzDisconnect([w EXCEPT !.o.isDestroyed = TRUE,
                                     !.o.shouldReconnect = FALSE])
  IN [w1 EXCEPT !.o.callbacks = FALSE, !.hist.dead = TRUE]

\* variant: stopReconnecting() that gives the connection up as disconnect() does
BuzzStopReconnectingDrops(w) == BuzzDisconnect(w)

\* variant: stopReconnecting() that clears the flag and leaves the timer armed
BuzzStopReconnectingFlagOnly(w) == [w EXCEPT !.o.shouldReconnect = FALSE]

BuzzStopReconnecting(w) ==
  BuzzClearReconnectTimeout([w EXCEPT !.o.shouldReconnect = FALSE])

\* variant: reset() that restores the flags without calling disconnect()
BuzzResetFlagsOnly(w) ==
  [w EXCEPT !.o.isDestroyed = FALSE,
            !.o.shouldReconnect = TRUE,
            !.o.reconnectAttempts = 0,
            !.o.serverUrl = "",
            !.o.isConnecting = FALSE]

BuzzReset(w) ==
  LET w1 == BuzzDisconnect(w)
  IN [w1 EXCEPT !.o.isDestroyed = FALSE,
                !.o.shouldReconnect = TRUE,
                !.o.reconnectAttempts = 0,
                !.o.serverUrl = "",
                !.o.isConnecting = FALSE]

BuzzSetCallbacks(w) ==
  IF w.o.isDestroyed THEN w ELSE [w EXCEPT !.o.callbacks = TRUE]

\* isConnected()
BuzzIsConnected(w) == ~w.o.isDestroyed /\ BuzzReadyState(w) = OPEN

\* this.ws.send(data): one frame on the current transport
BuzzWrite(w, frame) ==
  [w EXCEPT !.wire = Append(@, [sock |-> w.o.ws, frame |-> frame])]

\* sendAudio(audioData); throws: ws.send() throws synchronously
BuzzSendAudio(w, throws) ==
  IF w.o.isDestroyed \/ ~BuzzIsConnected(w) THEN w      \* console.warn; return
  ELSE IF throws
       THEN IF ~w.o.isDestroyed THEN BuzzCall(w, "onError", "Failed to send audio") ELSE w
       ELSE IF w.o.ws # 0 THEN BuzzWrite(w, "audio") ELSE w

\* sendMessage(message)
BuzzSendMessage(w, throws) ==
  IF w.o.isDestroyed \/ ~BuzzIsConnected(w) THEN w      \* console.warn; return
  ELSE IF throws
       THEN IF ~w.o.isDestroyed THEN BuzzCall(w, "onError", "Failed to send message") ELSE w
       ELSE BuzzWrite(w, "message")

\* frames the relay may deliver: a stats_update text frame, a text frame of
\* another type, a text frame that is not JSON, a binary frame
BuzzFrames == {"stats_update", "other", "garbage", "binary"}

\* handleMessage(event)
BuzzHandleMessage(w, frame) ==
  IF w.o.isDestroyed THEN w
  ELSE IF frame = "stats_update" THEN BuzzCall(w, "onUserCountUpdate", "")
  ELSE IF frame = "binary" THEN BuzzCall(w, "onAudioReceived", "")
  ELSE w                                  \* logged, or the parse error caught

\* the callback of the reconnect timer
BuzzTimerCallback(w) ==
  IF w.o.isDestroyed \/ ~w.o.shouldReconnect THEN w
  ELSE IF w.o.serverUrl # "" THEN BuzzConnect(w, w.o.serverUrl)
  ELSE w

-----------------------------------------------------------------------------
(* Steps of the callback-based service: caller operations, transport      *)
(* events and timer firings, each a whole handler.                         *)

Op(name, pre, why, code) == [name |-> name, pre |-> pre, why |-> why, code |-> code]

BuzzWorld ==
  [o |-> buzz, socks |-> bsock, timers |-> btimers, hist |-> bhist,
   out |-> <<>>, wire |-> <<>>]

\* A transport whose handlers are detached reaches nobody with its events.
\* Of the transports dropped while closing, the model follows the closing
\* handshake of the latest one only; earlier ones count as closed.
BuzzRetire(socks, i) ==
  IF /\ socks[i].readyState = CLOSING
     /\ ~socks[i].handlers
     /\ \E j \in SockIds : j > i /\ socks[j].readyState = CLOSING /\ ~socks[j].handlers
  THEN [socks[i] EXCEPT !.readyState = CLOSED]
  ELSE socks[i]

BuzzStep(w, o) ==
  /\ svc = "buzz"
  /\ buzz' = w.o
  /\ bsock' = [i \in SockIds |-> BuzzRetire(w.socks, i)]
  /\ btimers' = w.timers
  /\ bhist' = w.hist
  /\ emitted' = w.out
  /\ wire' = w.wire
  /\ op' = o
  /\ UNCHANGED <<svc, wss, wsock, wtimers, whist, wjobs, audio, bus, play>>

BuzzActSetCallbacks ==
  BuzzStep(BuzzSetCallbacks(BuzzWorld), Op("setCallbacks", BuzzReadyState(BuzzWorld), "", 0))

BuzzActConnect ==
  \E url \in Urls :
    /\ BuzzCreates(BuzzWorld, url) => NextSock(bsock) # 0
    /\ BuzzStep(BuzzConnect(BuzzWorld, url),
                Op("connect", BuzzReadyState(BuzzWorld), BuzzConnectGuard(BuzzWorld), 0))

BuzzActDisconnect ==
  BuzzStep(BuzzDisconnect(BuzzWorld), Op("disconnect", BuzzReadyState(BuzzWorld), "", 0))

BuzzActDestroy ==
  BuzzStep(BuzzDestroy(BuzzWorld), Op("destroy", BuzzReadyState(BuzzWorld), "", 0))

BuzzActReset ==
  BuzzStep(BuzzReset(BuzzWorld), Op("reset", BuzzReadyState(BuzzWorld), "", 0))

BuzzActStopReconnecting ==
  BuzzStep(BuzzStopReconnecting(BuzzWorld),
           Op("stopReconnecting", BuzzReadyState(BuzzWorld), "", 0))

\* why a send call wrote nothing: "" when it wrote its frame
BuzzSendGuard(w, throws) ==
  IF w.o.isDestroyed \/ ~BuzzIsConnected(w) THEN "notConnected"
  ELSE IF throws THEN "throws" ELSE ""

BuzzActSendAudio ==
  \E throws \in BOOLEAN :
    BuzzStep(BuzzSendAudio(BuzzWorld, throws),
             Op("sendAudio", BuzzReadyState(BuzzWorld), BuzzSendGuard(BuzzWorld, throws), 0))

BuzzActSendMessage ==
  \E throws \in BOOLEAN :
    BuzzStep(BuzzSendMessage(BuzzWorld, throws),
             Op("sendMessage", BuzzReadyState(BuzzWorld), BuzzSendGuard(BuzzWorld, throws), 0))

\* the transport's message event
BuzzEvMessage ==
  \E i \in SockIds, frame \in BuzzFrames :
    /\ bsock[i].readyState \in {OPEN, CLOSING}
    /\ BuzzStep(IF bsock[i].handlers THEN BuzzHandleMessage(BuzzWorld, frame) ELSE BuzzWorld,
                Op("message", BuzzReadyState(BuzzWorld), frame, 0))

\* the transport's open event
BuzzEvOpen ==
  \E i \in SockIds :
    /\ bsock[i].readyState = CONNECTING
    /\ LET w == [BuzzWorld EXCEPT !.socks[i].readyState = OPEN]
       IN BuzzStep(IF bsock[i].handlers THEN BuzzOnOpen(w) ELSE w,
                   Op("open", BuzzReadyState(BuzzWorld), "", 0))

\* the transport fails (connection refused, network lost): error, then close
BuzzEvFail ==
  \E i \in SockIds, code \in CloseCodes \ {NormalClosure} :
    /\ bsock[i].readyState \in {CONNECTING, OPEN}
    /\ LET w == [BuzzWorld EXCEPT !.socks[i].readyState = CLOSED]
       IN BuzzStep(IF bsock[i].handlers THEN BuzzOnClose(BuzzOnError(w), code) ELSE w,
                   Op("fail", BuzzReadyState(BuzzWorld), "", code))

\* the transport's close event: the peer closed an open transport, or the
\* closing handshake the client started has ended
BuzzEvClose ==
  \E i \in SockIds, code \in CloseCodes :
    /\ bsock[i].readyState \in {OPEN, CLOSING}
    /\ LET w == [BuzzWorld EXCEPT !.socks[i].readyState = CLOSED]
       IN BuzzStep(IF bsock[i].handlers THEN BuzzOnClose(w, code) ELSE w,
                   Op("close", BuzzReadyState(BuzzWorld), "", code))

\* an armed reconnect timer fires
BuzzEvTimer ==
  \E t \in btimers :
    LET w == [BuzzWorld EXCEPT !.timers = @ \ {t}]
    IN /\ (~w.o.isDestroyed /\ w.o.shouldReconnect /\ BuzzCreates(w, w.o.serverUrl))
            => NextSock(bsock) # 0
       /\ BuzzStep(BuzzTimerCallback(w),
                   Op("reconnectTimer", BuzzReadyState(BuzzWorld), BuzzConnectGuard(w), 0))

BuzzNext ==
  \/ BuzzActSetCallbacks
  \/ BuzzActConnect
  \/ BuzzActDisconnect
  \/ BuzzActDestroy
  \/ BuzzActReset
  \/ BuzzActStopReconnecting
  \/ BuzzActSendAudio
  \/ BuzzActSendMessage
  \/ BuzzEvOpen
  \/ BuzzEvMessage
  \/ BuzzEvFail
  \/ BuzzEvClose
  \/ BuzzEvTimer

-----------------------------------------------------------------------------
(***************************************************************************)
(* The event-listener WebSocketService (ws-service).                       *)
(* A world w is [o, socks, timers, hist, out, wire].  A transport record   *)
(* also carries the connect() call that created it: its connection         *)
(* timeout, its promise and who awaits the promise (the caller, or the     *)
(* callback of a reconnect timer).  Handlers are never detached.           *)
(***************************************************************************)

WsMaxReconnectAttempts == 3
WsDelayCap == 120000

ReconnectFailed == "Failed to reconnect after multiple attempts"

WsSockIds == 1..MaxWsSockets

WsInitObj ==
  [ ws                |-> 0,
    isConnected       |-> FALSE,
    reconnectAttempts |-> 0,
    reconnectTimeout  |-> 0,
    currentProfile    |-> FALSE ]   \* null, or the profile of the last findMatch

WsNoSock ==
  [ readyState |-> NONE,
    timeout    |-> FALSE,       \* connectionTimeout of the connect() call armed
    promise    |-> "pending",   \* promise of the connect() call
    awaiter    |-> "caller",    \* who awaits it: "caller" | "reconnect"
    opened     |-> FALSE,       \* the transport reached OPEN
    discs      |-> 0 ]          \* history: 'disconnect' events for its closure

\* transports a run may create: fewer in a run with message traffic
WsSockLimit ==
  IF svc = "chat" THEN MaxChatSockets
  ELSE IF svc = "frames" THEN MaxFrameSockets
  ELSE MaxWsSockets

WsNextSock(socks) ==
  IF \E i \in 1..WsSockLimit : socks[i].readyState = NONE
  THEN CHOOSE i \in 1..WsSockLimit :
         /\ socks[i].readyState = NONE
         /\ \A j \in 1..WsSockLimit : socks[j].readyState = NONE => i <= j
  ELSE 0

WsReadyState(w) == IF w.o.ws = 0 THEN NONE ELSE w.socks[w.o.ws].readyState

\* emit(event, arg): the listeners of the kind are called
WsEmit(w, e, a) ==
  [w EXCEPT !.out = Append(@, Ev(e, a)),
            !.hist.fails = IF e = "error" /\ a = ReconnectFailed THEN @ + 1 ELSE @]

\* log(message): console output and a 'log' event
WsLog(w, m) == WsEmit(w, "log", m)

WsSendMessage(w, type) ==
  IF WsReadyState(w) = OPEN
  THEN [w EXCEPT !.wire = Append(@, [sock |-> w.o.ws, frame |-> type])]
  ELSE WsEmit(w, "error", "Not connected to server")

WsDelay(n) == Min(1000 * Pow2(n), WsDelayCap)

\* variant: the budget tested with > where the code has >=
WsAttemptReconnectLate(w) ==
  IF w.o.reconnectAttempts > WsMaxReconnectAttempts
  THEN WsEmit(w, "error", ReconnectFailed)
  ELSE
    LET n  == w.o.reconnectAttempts + 1
        id == FreshTimer(w.timers, 0)
        w1 == WsLog([w EXCEPT !.o.reconnectAttempts = n], "Reconnecting")
    IN [w1 EXCEPT !.o.reconnectTimeout = id,
                  !.timers = @ \cup {[id |-> id, delay |-> WsDelay(n), n |-> n]}]

WsAttemptReconnect(w) ==
  IF w.o.reconnectAttempts >= WsMaxReconnectAttempts
  THEN WsEmit(w, "error", ReconnectFailed)
  ELSE
    LET n  == w.o.reconnectAttempts + 1
        id == FreshTimer(w.timers, 0)
        w1 == WsLog([w EXCEPT !.o.reconnectAttempts = n], "Reconnecting")
    IN [w1 EXCEPT !.o.reconnectTimeout = id,
                  !.timers = @ \cup {[id |-> id, delay |-> WsDelay(n), n |-> n]}]

\* findMatch(profile), called inside the try block of the reconnect callback:
\* its throw lands in that catch block
WsFindMatchInCallback(w) ==
  IF ~w.o.isConnected
  THEN WsAttemptReconnect(w)
  ELSE WsLog(WsSendMessage([w EXCEPT !.o.currentProfile = TRUE], "find_match"),
             "Looking for compatible matches")

\* the rest of the reconnect callback once `await this.connect()` resolved
WsResumeMatching(w) ==
  IF w.o.currentProfile THEN WsFindMatchInCallback(w) ELSE w

\* resolve() of the promise of the connect() call that created transport i
WsResolve(w, i) ==
  IF w.socks[i].promise # "pending" THEN w
  ELSE LET w1 == [w EXCEPT !.socks[i].promise = "resolved"]
       IN IF w.socks[i].awaiter = "reconnect" THEN WsResumeMatching(w1) ELSE w1

\* reject(): a reconnect callback awaiting it catches and retries
WsReject(w, i) ==
  IF w.socks[i].promise # "pending" THEN w
  ELSE LET w1 == [w EXCEPT !.socks[i].promise = "rejected"]
       IN IF w.socks[i].awaiter = "reconnect" THEN WsAttemptReconnect(w1) ELSE w1

\* the early return of connect()
WsConnectGuard(w) == w.o.isConnected /\ WsReadyState(w) = OPEN

WsConnect(w, awaiter) ==
  IF WsConnectGuard(w)
  THEN IF awaiter = "reconnect" THEN WsResumeMatching(w) ELSE w
  ELSE LET n == WsNextSock(w.socks)
       IN [w EXCEPT !.socks[n] = [WsNoSock EXCEPT !.readyState = CONNECTING,
                                                  !.timeout = TRUE,
                                                  !.awaiter = awaiter],
                    !.o.ws = n]

\* the callback of the connection timeout armed by the call that made i
WsOnTimeout(w, i) ==
  LET w0 == [w EXCEPT !.socks[i].timeout = FALSE]
  IN IF WsReadyState(w0) # OPEN
     THEN LET w1 == IF w0.o.ws # 0
                    THEN [w0 EXCEPT !.socks[w0.o.ws] = SockCloseCall(@)]
                    ELSE w0
          IN WsReject(w1, i)
     ELSE w0

\* history only: the transport that opens is the only one in use and no
\* reconnect timer is armed, a connection established without interference
WsCleanOpen(w, i) ==
  /\ w.timers = {}
  /\ \A j \in WsSockIds \ {i} : w.socks[j].readyState \in {NONE, CLOSED}

\* variant: an open handler that leaves the retry counter as it is
WsOnOpenKeepsCounter(w, i) ==
  LET w1 == [w EXCEPT !.socks[i].timeout = FALSE,
                      !.o.isConnected = TRUE,
                      !.hist = [fails |-> 0, quiet |-> WsCleanOpen(w, i)]]
      w2 == WsLog(WsEmit(w1, "connect", ""), "Connected to dating server")
  IN WsResolve(w2, i)

WsOnOpen(w, i) ==
  LET w1 == [w EXCEPT !.socks[i].timeout = FALSE,
                      !.o.isConnected = TRUE,
                      !.o.reconnectAttempts = 0,
                      !.hist = [fails |-> 0, quiet |-> WsCleanOpen(w, i)]]
      w2 == WsLog(WsEmit(w1, "connect", ""), "Connected to dating server")
  IN WsResolve(w2, i)

WsOnError(w, i) ==
  WsReject(WsEmit([w EXCEPT !.socks[i].timeout = FALSE], "error", "Connection failed"), i)

WsHandleDisconnection(w, i, code) ==
  LET w1 == WsEmit([w EXCEPT !.o.isConnected = FALSE,
                             !.socks[i].discs = @ + 1],
                   "disconnect", "")
  IN IF code # NormalClosure
     THEN WsAttemptReconnect(WsLog(w1, "Connection lost"))
     ELSE WsLog(w1, "Disconnected from dating server")

WsOnClose(w, i, code) ==
  WsHandleDisconnection([w EXCEPT !.socks[i].timeout = FALSE], i, code)

WsClearReconnectTimeout(w) ==
  IF w.o.reconnectTimeout # 0
  THEN [w EXCEPT !.timers = {t \in @ : t.id # w.o.reconnectTimeout},
                 !.o.reconnectTimeout = 0]
  ELSE w

\* this.ws.close() in disconnect(); history: the 'disconnect' event that
\* disconnect() emits belongs to the closure it starts here
WsCloseByDisconnect(s) ==
  IF s.readyState \in {CONNECTING, OPEN}
  THEN [SockCloseCall(s) EXCEPT !.discs = @ + 1]
  ELSE s

WsDisconnect(w) ==
  LET w1 == WsClearReconnectTimeout(w)
      w2 == IF w1.o.ws # 0
            THEN LET w3 == WsSendMessage(w1, "end_session")
                 IN [w3 EXCEPT !.socks[w1.o.ws] = WsCloseByDisconnect(@),
                               !.o.ws = 0]
            ELSE w1
      w4 == [w2 EXCEPT !.o.isConnected = FALSE,
                       !.o.currentProfile = FALSE]
  IN WsLog(WsEmit(w4, "disconnect", ""), "Disconnected from dating server")

\* findMatch(profile) called by the screen; a throw goes to the caller
WsFindMatch(w) ==
  IF ~w.o.isConnected THEN w
  ELSE WsLog(WsSendMessage([w EXCEPT !.o.currentProfile = TRUE], "find_match"),
             "Looking for compatible matches")

\* what a caller may hand to sendAudio: an ArrayBuffer, a base64 string, a
\* string atob() rejects
WsAudioInputs == {"buffer", "base64", "malformed"}

\* the early throw and the catch block of sendAudio(): "" when the frame is
\* written; throws: ws.send() throws synchronously
WsSendAudioGuard(w, data, throws) ==
  IF w.o.ws = 0 \/ WsReadyState(w) # OPEN THEN "notConnected"
  ELSE IF data = "malformed" \/ throws THEN "failed"
  ELSE ""

\* variant: sendAudio() that throws without emitting when not connected
WsSendAudioSilent(w, data, throws) ==
  IF WsSendAudioGuard(w, data, throws) = "notConnected" THEN w
  ELSE IF WsSendAudioGuard(w, data, throws) = "failed"
  THEN WsEmit(w, "error", "Failed to send audio")
  ELSE WsLog([w EXCEPT !.wire = Append(@, [sock |-> w.o.ws, frame |-> "audio"])],
             "Sent voice message")

\* sendAudio(audioData); the promise rejects unless the guard is ""
WsSendAudio(w, data, throws) ==
  IF WsSendAudioGuard(w, data, throws) = "notConnected"
  THEN WsEmit(w, "error", "Cannot send audio: not connected")
  ELSE IF WsSendAudioGuard(w, data, throws) = "failed"
  THEN WsEmit(w, "error", "Failed to send audio")
  ELSE WsLog([w EXCEPT !.wire = Append(@, [sock |-> w.o.ws, frame |-> "audio"])],
             "Sent voice message")

-----------------------------------------------------------------------------
(* Inbound messages of the event-listener service *)

\* the length an unparseable text payload must exceed to pass for audio
AudioStringLen == 1000

\* lengths of the unparseable text payloads the model delivers
TextLens == {AudioStringLen - 1, AudioStringLen, AudioStringLen + 1}

\* `type` of the JSON texts the model delivers; "null" is the JSON text null
JsonTypes ==
  {"connected", "match_found", "match_ended", "partner_disconnected",
   "no_matches", "stats_update", "error", "other", "null"}

\* types whose handling reads an optional field (partner, stats, message)
OptionalField == {"match_found", "stats_update", "error"}

\* event.data of a message event.  kind: "buffer" (ArrayBuffer), "blob"
\* (what a platform whose binaryType was left alone may hand over),
\* "text"; type: "" for a text that is not JSON; full: the optional field is
\* present; len: length of a text that is not JSON
WsFrame(kind, type, full, len) ==
  [kind |-> kind, type |-> type, full |-> full, len |-> len]

WsFrames ==
  {WsFrame("buffer", "", FALSE, 0), WsFrame("blob", "", FALSE, 0)}
    \cup {WsFrame("text", t, FALSE, 0) : t \in JsonTypes}
    \cup {WsFrame("text", t, TRUE, 0) : t \in OptionalField}
    \cup {WsFrame("text", "", FALSE, n) : n \in TextLens}

\* the frames delivered in a run that follows several connections: a binary
\* frame of either representation, a control message, a message of unknown
\* type, a short text that is not JSON
ChatFrames ==
  {WsFrame("buffer", "", FALSE, 0), WsFrame("blob", "", FALSE, 0),
   WsFrame("text", "match_ended", FALSE, 0), WsFrame("text", "other", FALSE, 0),
   WsFrame("text", "", FALSE, AudioStringLen - 1)}

\* JSON.parse(event.data) or handleJsonMessage(message) throws: the text is
\* not JSON, or it is the JSON null and reading message.type throws
WsParseThrows(m) == m.type \in {"", "null"}

\* the argument of an 'audio_received' event for a text payload passed on
\* unchanged
AsText(n) == "text of " \o ToString(n)

\* variant: handleJsonMessage() that reports the end of the match before the
\* partner's disconnection
WsHandleJsonMessageSwapped(w, m) ==
  IF m.type = "connected" THEN WsLog(w, "Connected to server")
  ELSE IF m.type = "match_found"
  THEN IF m.full THEN WsLog(WsEmit(w, "match_found", "partner"), "Matched") ELSE w
  ELSE IF m.type = "match_ended"
  THEN WsLog(WsEmit(w, "match_ended", "reason"), "Match ended")
  ELSE IF m.type = "partner_disconnected"
  THEN WsLog(WsEmit(WsEmit(w, "match_ended", "Partner disconnected"),
                    "partner_disconnected", ""),
             "Partner disconnected")
  ELSE IF m.type = "no_matches"
  THEN WsLog(WsEmit(w, "no_matches", ""), "No matches available")
  ELSE IF m.type = "stats_update"
  THEN IF m.full THEN WsEmit(w, "stats_update", "stats") ELSE w
  ELSE IF m.type = "error"
  THEN LET text == IF m.full THEN "message" ELSE "Server error"
       IN WsLog(WsEmit(w, "error", text), text)
  ELSE w

WsHandleJsonMessage(w, m) ==
  IF m.type = "connected" THEN WsLog(w, "Connected to server")
  ELSE IF m.type = "match_found"
  THEN IF m.full THEN WsLog(WsEmit(w, "match_found", "partner"), "Matched") ELSE w
  ELSE IF m.type = "match_ended"
  THEN WsLog(WsEmit(w, "match_ended", "reason"), "Match ended")
  ELSE IF m.type = "partner_disconnected"
  THEN WsLog(WsEmit(WsEmit(w, "partner_disconnected", ""),
                    "match_ended", "Partner disconnected"),
             "Partner disconnected")
  ELSE IF m.type = "no_matches"
  THEN WsLog(WsEmit(w, "no_matches", ""), "No matches available")
  ELSE IF m.type = "stats_update"
  THEN IF m.full THEN WsEmit(w, "stats_update", "stats") ELSE w
  ELSE IF m.type = "error"
  THEN LET text == IF m.full THEN "message" ELSE "Server error"
       IN WsLog(WsEmit(w, "error", text), text)
  ELSE w                                       \* console.log only

\* A pending conversion is the promise of blobToArrayBuffer() with its two
\* callbacks.  History kept with it: the connection the Blob arrived on, and
\* late, the first thing that happened to that connection since: "" nothing,
\* "overtaken" the events of a later message of it were delivered, "gone" its
\* 'disconnect' event was emitted.  The connection is forgotten once late.
WsJob(i, late) == [sock |-> IF late = "" THEN i ELSE 0, late |-> late]

\* the events of a message of connection i are delivered: the conversions
\* 1..n of the pending ones that belong to it are overtaken
WsOvertake(w, i, n) ==
  [w EXCEPT !.jobs = [k \in DOMAIN @ |->
                        IF k <= n /\ @[k].sock = i THEN WsJob(i, "overtaken") ELSE @[k]]]

\* history: a transport that had opened is CLOSING or CLOSED once disconnect()
\* closed it or its close event was handled, and both emit 'disconnect'
WsJobsAfter(jobs, socks) ==
  [k \in DOMAIN jobs |->
     IF jobs[k].sock # 0 /\ socks[jobs[k].sock].readyState \in {CLOSING, CLOSED}
     THEN WsJob(jobs[k].sock, "gone")
     ELSE jobs[k]]

\* handleMessage(event) for a message event of transport i
WsHandleMessage(w, i, m) ==
  IF m.kind = "buffer"
  THEN WsLog(WsEmit(w, "audio_received", "base64"), "Received voice message")
  ELSE IF m.kind = "blob"
  THEN [w EXCEPT !.jobs = Append(@, WsJob(i, ""))]
  ELSE IF ~WsParseThrows(m) THEN WsHandleJsonMessage(w, m)
  ELSE IF m.len > AudioStringLen
  THEN WsLog(WsEmit(w, "audio_received", AsText(m.len)),
             "Received voice message (string format)")
  ELSE WsEmit(w, "error", "Invalid message format")

\* variant: a message event that gives the connection up on a text it cannot
\* parse
WsOnMessageStrict(w, i, m) ==
  IF m.kind = "text" /\ WsParseThrows(m) /\ m.len <= AudioStringLen
  THEN WsEmit([w EXCEPT !.o.isConnected = FALSE,
                        !.socks[i] = SockCloseCall(@)],
              "error", "Invalid message format")
  ELSE WsHandleMessage(w, i, m)

\* the message event of transport i; history: what it overtakes
WsOnMessage(w, i, m) ==
  LET w1 == WsHandleMessage(w, i, m)
  IN IF w1.out # <<>> THEN WsOvertake(w1, i, Len(w.jobs)) ELSE w1

\* the promise of blobToArrayBuffer() settles for pending conversion k:
\* the then-callback, or the catch-callback
WsBlobSettled(w, k, ok) ==
  LET w0 == IF w.jobs[k].sock # 0 THEN WsOvertake(w, w.jobs[k].sock, k - 1) ELSE w
      w1 == [w0 EXCEPT !.jobs = SubSeq(@, 1, k - 1) \o SubSeq(@, k + 1, Len(@))]
  IN IF ok
     THEN WsLog(WsEmit(w1, "audio_received", "base64"), "Received voice message")
     ELSE WsEmit(w1, "error", "Failed to process received audio")

-----------------------------------------------------------------------------
(* Steps of the event-listener service *)

WsWorld ==
  [o |-> wss, socks |-> wsock, timers |-> wtimers, hist |-> whist,
   jobs |-> wjobs, out |-> <<>>, wire |-> <<>>]

CallerOps == {"connect", "disconnect", "findMatch", "sendAudio"}

\* A closed transport fires no further event and its connection timeout has
\* been cleared by its close handler: nothing reads the promise bookkeeping
\* of the connect() call that made it any more, and the record drops it.
\* The count of its 'disconnect' events is final once it is closed: it is
\* shown in the state that follows the closure (was: the record before the
\* step) and dropped after.
WsRetire(s, was) ==
  IF s.readyState = CLOSED
  THEN [WsNoSock EXCEPT !.readyState = CLOSED,
                        !.discs = IF was.readyState = CLOSED THEN 0 ELSE s.discs]
  ELSE IF s.promise # "pending" THEN [s EXCEPT !.awaiter = "caller"]
  ELSE s

WsStep(w, o) ==
  /\ svc \in {"ws", "chat", "frames"}
  /\ wss' = w.o
  /\ wsock' = [i \in WsSockIds |-> WsRetire(w.socks[i], wsock[i])]
  /\ wtimers' = w.timers
  /\ whist' = IF o.name \in CallerOps THEN [w.hist EXCEPT !.quiet = FALSE] ELSE w.hist
  /\ wjobs' = WsJobsAfter(w.jobs, w.socks)
  /\ emitted' = w.out
  /\ wire' = w.wire
  /\ op' = o
  /\ UNCHANGED <<svc, buzz, bsock, btimers, bhist, audio, bus, play>>

WsActConnect ==
  /\ ~WsConnectGuard(WsWorld) => WsNextSock(wsock) # 0
  /\ WsStep(WsConnect(WsWorld, "caller"),
            Op("connect", WsReadyState(WsWorld),
               IF WsConnectGuard(WsWorld) THEN "open" ELSE "", 0))

WsActDisconnect ==
  WsStep(WsDisconnect(WsWorld), Op("disconnect", WsReadyState(WsWorld), "", 0))

WsActFindMatch ==
  WsStep(WsFindMatch(WsWorld),
         Op("findMatch", WsReadyState(WsWorld),
            IF wss.isConnected THEN "" ELSE "throws", 0))

WsActSendAudio ==
  \E data \in WsAudioInputs :
    \E throws \in IF WsSendAudioGuard(WsWorld, data, FALSE) = "" THEN BOOLEAN ELSE {FALSE} :
      WsStep(WsSendAudio(WsWorld, data, throws),
             Op("sendAudio", WsReadyState(WsWorld),
                WsSendAudioGuard(WsWorld, data, throws), 0))

\* the transport's open event
WsEvOpen ==
  \E i \in WsSockIds :
    /\ wsock[i].readyState = CONNECTING
    /\ WsStep(WsOnOpen([WsWorld EXCEPT !.socks[i].readyState = OPEN,
                                       !.socks[i].opened = TRUE], i),
              Op("open", WsReadyState(WsWorld), "", 0))

\* the transport fails: connection refused or lost, or close() was called
\* before it was established.  Error event, the microtasks it queued (the
\* catch block of an awaiting reconnect callback), then the close event.
WsEvFail ==
  \E i \in WsSockIds, code \in CloseCodes \ {NormalClosure} :
    /\ \/ wsock[i].readyState \in {CONNECTING, OPEN}
       \/ wsock[i].readyState = CLOSING /\ ~wsock[i].opened
    /\ LET w == [WsWorld EXCEPT !.socks[i].readyState = CLOSED]
       IN WsStep(WsOnClose(WsOnError(w, i), i, code),
                 Op("fail", WsReadyState(WsWorld), "", code))

\* the transport's close event alone: the peer closed an open transport, or
\* the closing handshake the client started has ended
WsEvClose ==
  \E i \in WsSockIds, code \in CloseCodes :
    /\ wsock[i].readyState \in {OPEN, CLOSING}
    /\ LET w == [WsWorld EXCEPT !.socks[i].readyState = CLOSED]
       IN WsStep(WsOnClose(w, i, code),
                 Op("close", WsReadyState(WsWorld), "", code))

\* the connection timeout of a connect() call fires
WsEvTimeout ==
  \E i \in WsSockIds :
    /\ wsock[i].timeout
    /\ WsStep(WsOnTimeout(WsWorld, i),
              Op("connectTimeout", wsock[i].readyState,
                 IF WsReadyState(WsWorld) # OPEN THEN "timeout" ELSE "", 0))

\* an armed reconnect timer fires: await this.connect(), then resume matching
WsEvTimer ==
  \E t \in wtimers :
    LET w == [WsWorld EXCEPT !.timers = @ \ {t}]
    IN /\ ~WsConnectGuard(w) => WsNextSock(wsock) # 0
       /\ WsStep(WsConnect(w, "reconnect"),
                 Op("reconnectTimer", WsReadyState(WsWorld),
                    IF WsConnectGuard(w) THEN "open" ELSE "", 0))

\* a message event of a transport: dispatched only while the transport is
\* OPEN (a message that arrives after close() was called is dropped)
WsEvMessage ==
  \E i \in WsSockIds, m \in IF svc = "frames" THEN WsFrames ELSE ChatFrames :
    /\ svc \in {"chat", "frames"}
    /\ wsock[i].readyState = OPEN
    /\ m.kind = "blob" => Len(wjobs) < MaxJobs
    /\ WsStep(WsOnMessage(WsWorld, i, m),
              Op("message", wsock[i].readyState,
                 IF m.kind = "text" THEN m.type ELSE m.kind, m.len))

\* the conversion of a received Blob ends
WsEvBlob ==
  \E k \in DOMAIN wjobs, ok \in BOOLEAN :
    WsStep(WsBlobSettled(WsWorld, k, ok),
           Op("blob", WsReadyState(WsWorld), wjobs[k].late, 0))

WsNext ==
  \/ WsActConnect
  \/ WsActDisconnect
  \/ WsActFindMatch
  \/ WsActSendAudio
  \/ WsEvOpen
  \/ WsEvFail
  \/ WsEvClose
  \/ WsEvTimeout
  \/ WsEvTimer

\* the connection and the messages of its server (outbound audio left out)
ChatNext ==
  \/ WsActConnect
  \/ WsActDisconnect
  \/ WsActFindMatch
  \/ WsEvOpen
  \/ WsEvFail
  \/ WsEvClose
  \/ WsEvTimeout
  \/ WsEvTimer
  \/ WsEvMessage
  \/ WsEvBlob

\* one connection and its messages
FramesNext ==
  \/ WsActConnect
  \/ WsActDisconnect
  \/ WsEvOpen
  \/ WsEvClose
  \/ WsEvMessage
  \/ WsEvBlob

-----------------------------------------------------------------------------
(***************************************************************************)
(* Audio transcoding: AudioService of src/src/services/audio-service.ts    *)
(* (the event-listener service carries the same two base64 helpers).       *)
(* A buffer is a sequence of bytes 0..255; a string is a sequence of       *)
(* one-character strings; a binary string (what atob returns and btoa      *)
(* takes) is a sequence of char codes.                                     *)
(***************************************************************************)

\* the base64 alphabet of btoa/atob, index 0..63 at position 1..64
B64Chars ==
  << "A","B","C","D","E","F","G","H","I","J","K","L","M","N","O","P",
     "Q","R","S","T","U","V","W","X","Y","Z","a","b","c","d","e","f",
     "g","h","i","j","k","l","m","n","o","p","q","r","s","t","u","v",
     "w","x","y","z","0","1","2","3","4","5","6","7","8","9","+","/" >>

B64Char(v) == B64Chars[v + 1]

IsB64Char(c) == \E i \in 1..64 : B64Chars[i] = c

B64Value(c) == (CHOOSE i \in 1..64 : B64Chars[i] = c) - 1

\* btoa(binary): three bytes to four characters, '=' padding
RECURSIVE Btoa(_)
Btoa(b) ==
  IF Len(b) = 0 THEN <<>>
  ELSE IF Len(b) = 1
  THEN << B64Char(b[1] \div 4), B64Char((b[1] % 4) * 16), "=", "=" >>
  ELSE IF Len(b) = 2
  THEN << B64Char(b[1] \div 4), B64Char((b[1] % 4) * 16 + b[2] \div 16),
          B64Char((b[2] % 16) * 4), "=" >>
  ELSE << B64Char(b[1] \div 4), B64Char((b[1] % 4) * 16 + b[2] \div 16),
          B64Char((b[2] % 16) * 4 + b[3] \div 64), B64Char(b[3] % 64) >>
       \o Btoa(SubSeq(b, 4, Len(b)))

\* atob's padding rule: a length that is a multiple of four may end in one or
\* two '=', which are dropped
AtobUnpad(t) ==
  IF Len(t) % 4 = 0 /\ Len(t) > 0 /\ t[Len(t)] = "="
  THEN IF t[Len(t) - 1] = "=" THEN SubSeq(t, 1, Len(t) - 2)
       ELSE SubSeq(t, 1, Len(t) - 1)
  ELSE t

\* the bytes of unpadded base64 characters; leftover bits are discarded
RECURSIVE AtobBytes(_)
AtobBytes(t) ==
  IF Len(t) < 2 THEN <<>>
  ELSE LET a == B64Value(t[1])
           b == B64Value(t[2])
       IN IF Len(t) = 2 THEN << a * 4 + b \div 16 >>
          ELSE LET c == B64Value(t[3])
               IN IF Len(t) = 3
                  THEN << a * 4 + b \div 16, (b % 16) * 16 + c \div 4 >>
                  ELSE << a * 4 + b \div 16, (b % 16) * 16 + c \div 4,
                          (c % 4) * 64 + B64Value(t[4]) >>
                       \o AtobBytes(SubSeq(t, 5, Len(t)))

\* atob(text): ok = FALSE when it throws InvalidCharacterError
Atob(t) ==
  LET u == AtobUnpad(t)
  IN IF Len(u) % 4 = 1 \/ \E k \in 1..Len(u) : ~IsB64Char(u[k])
     THEN [ok |-> FALSE, bytes |-> <<>>]
     ELSE [ok |-> TRUE, bytes |-> AtobBytes(u)]

DataAudioPrefix == << "d","a","t","a",":","a","u","d","i","o","/" >>
Base64Marker == << ";","b","a","s","e","6","4","," >>

StartsWith(s, p) == Len(s) >= Len(p) /\ SubSeq(s, 1, Len(p)) = p

Includes(s, p) ==
  \E k \in 0..(Len(s) - Len(p)) : SubSeq(s, k + 1, k + Len(p)) = p

\* length of the match of /^data:audio\/[^;]+;base64,/ in t, 0 when none
DataUriMatch(t) ==
  IF /\ StartsWith(t, DataAudioPrefix)
     /\ \E k \in (Len(DataAudioPrefix) + 2)..Len(t) : t[k] = ";"
  THEN LET k == CHOOSE k \in (Len(DataAudioPrefix) + 1)..Len(t) :
                  /\ t[k] = ";"
                  /\ \A j \in (Len(DataAudioPrefix) + 1)..(k - 1) : t[j] # ";"
       IN IF /\ k >= Len(DataAudioPrefix) + 2
             /\ StartsWith(SubSeq(t, k, Len(t)), Base64Marker)
          THEN k + Len(Base64Marker) - 1
          ELSE 0
  ELSE 0

\* base64.replace(/^data:audio\/[^;]+;base64,/, '')
StripDataUri(t) == SubSeq(t, DataUriMatch(t) + 1, Len(t))

\* the loop of arrayBufferToBase64: the binary string built chunk by chunk
RECURSIVE BinaryByChunks(_, _, _)
BinaryByChunks(bytes, i, chunkSize) ==
  IF i >= Len(bytes) THEN <<>>
  ELSE SubSeq(bytes, i + 1, Min(i + chunkSize, Len(bytes)))
       \o BinaryByChunks(bytes, i + chunkSize, chunkSize)

\* arrayBufferToBase64(buffer) run with the given chunk size
ArrayBufferToBase64(bytes, chunkSize) == Btoa(BinaryByChunks(bytes, 0, chunkSize))

\* variant: a decoder that drops the bytes of a padded final group
Base64ToArrayBufferTruncating(t) ==
  LET r == Atob(StripDataUri(t))
  IN IF r.ok /\ Len(r.bytes) % 3 # 0
     THEN [r EXCEPT !.bytes = SubSeq(@, 1, Len(@) - (Len(@) % 3))]
     ELSE r

\* base64ToArrayBuffer(base64); ok = FALSE when atob throws
Base64ToArrayBuffer(t) == Atob(StripDataUri(t))


\* container signatures detectAudioFormat looks for, as char codes
SigFtyp == <<102, 116, 121, 112>>     \* 'ftyp'
SigM4A  == <<77, 52, 65>>             \* 'M4A'
SigWebm == <<119, 101, 98, 109>>      \* 'webm'
SigRIFF == <<82, 73, 70, 70>>         \* 'RIFF'
SigWAVE == <<87, 65, 86, 69>>         \* 'WAVE'
SigOggS == <<79, 103, 103, 83>>       \* 'OggS'

\* base64 characters of the input that detectAudioFormat decodes
DetectPrefixLen == 100

\* variant: the fallback reported as its own class
DetectAudioFormatUnknown(t) ==
  LET clean == StripDataUri(t)
      r     == Atob(SubSeq(clean, 1, Min(DetectPrefixLen, Len(clean))))
  IN IF ~r.ok THEN "unknown"
     ELSE IF Includes(r.bytes, SigFtyp) /\ Includes(r.bytes, SigM4A) THEN "m4a"
     ELSE IF Includes(r.bytes, SigWebm) THEN "webm"
     ELSE IF StartsWith(r.bytes, SigRIFF) /\ Includes(r.bytes, SigWAVE) THEN "wav"
     ELSE IF StartsWith(r.bytes, SigOggS) THEN "ogg"
     ELSE "unknown"

\* detectAudioFormat(base64Data)
DetectAudioFormat(t) ==
  LET clean == StripDataUri(t)
      r     == Atob(SubSeq(clean, 1, Min(DetectPrefixLen, Len(clean))))
  IN IF ~r.ok THEN "m4a"                  \* the catch block
     ELSE IF Includes(r.bytes, SigFtyp) /\ Includes(r.bytes, SigM4A) THEN "m4a"
     ELSE IF Includes(r.bytes, SigWebm) THEN "webm"
     ELSE IF StartsWith(r.bytes, SigRIFF) /\ Includes(r.bytes, SigWAVE) THEN "wav"
     ELSE IF StartsWith(r.bytes, SigOggS) THEN "ogg"
     ELSE "m4a"                           \* 'Could not detect audio format'

\* getMimeTypeFromFormat(format)
GetMimeTypeFromFormat(format) ==
  CASE format = "m4a"  -> "audio/mp4"
    [] format = "mp4"  -> "audio/mp4"
    [] format = "webm" -> "audio/webm"
    [] format = "wav"  -> "audio/wav"
    [] format = "ogg"  -> "audio/ogg"
    [] OTHER           -> "audio/mp4"

\* the extension saveBase64Audio gives the temporary file: `.${format}`
AudioExtension(format) ==
  CASE format = "m4a"  -> ".m4a"
    [] format = "webm" -> ".webm"
    [] format = "wav"  -> ".wav"
    [] format = "ogg"  -> ".ogg"
    [] OTHER           -> ".?"

-----------------------------------------------------------------------------
(* Buffers and strings the transcoder is run on *)

\* longest buffer of arbitrary bytes
MaxBufLen == 4

\* most signature pieces a header is put together from
MaxPieces == 3

\* chunk size of arrayBufferToBase64 in the source
ChunkSize == 32768

\* a chunk size small enough for the buffers above to span several chunks
SmallChunk == 2

\* byte values: both ends of the range, the sign bit, a low value
ByteVals == {0, 1, 128, 255}

RECURSIVE SeqsUpTo(_, _)
SeqsUpTo(S, n) ==
  IF n = 0 THEN {<<>>}
  ELSE LET shorter == SeqsUpTo(S, n - 1)
       IN shorter \cup {Append(s, x) : s \in shorter, x \in S}

\* pieces of a header: the six signatures and four bytes of other data
Pieces == {SigFtyp, SigM4A, SigWebm, SigRIFF, SigWAVE, SigOggS, <<0, 0, 16, 32>>}

RECURSIVE Concat(_)
Concat(ss) == IF ss = <<>> THEN <<>> ELSE Head(ss) \o Concat(Tail(ss))

Buffers ==
  SeqsUpTo(ByteVals, MaxBufLen) \cup {Concat(ps) : ps \in SeqsUpTo(Pieces, MaxPieces)}

\* the string handed to the decoder or the detector: the encoder's output,
\* the same behind a data URI prefix, or a string atob() rejects
TextOf(bytes, chunkSize, how) ==
  LET enc == ArrayBufferToBase64(bytes, chunkSize)
  IN IF how = "dataUri"
     THEN DataAudioPrefix \o <<"w", "a", "v">> \o Base64Marker \o enc
     ELSE IF how = "malformed" THEN <<"%">> \o enc
     ELSE enc

AudioInit(bytes, chunkSize) ==
  [ buf    |-> bytes,       \* the buffer received
    chunk  |-> chunkSize,   \* chunk size the encoder runs with
    how    |-> "",          \* how the string was made: "encoded" | "dataUri" | "malformed"
    text   |-> <<>>,        \* the base64 string
    back   |-> [ok |-> FALSE, bytes |-> <<>>, done |-> FALSE],
    format |-> "",          \* result of detectAudioFormat, "" before it ran
    mime   |-> "",          \* MIME type playAudioWeb puts in the data URL
    ext    |-> "" ]         \* extension saveBase64Audio gives the temporary file

AudioStep(a, o) ==
  /\ svc = "audio"
  /\ audio' = a
  /\ op' = o
  /\ UNCHANGED <<svc, buzz, bsock, btimers, bhist, wss, wsock, wtimers, whist, wjobs,
                 bus, play, emitted, wire>>

\* arrayBufferToBase64(buffer)
AudioActEncode ==
  /\ audio.how = ""
  /\ AudioStep([audio EXCEPT !.how = "encoded",
                             !.text = TextOf(audio.buf, audio.chunk, "encoded")],
               Op("arrayBufferToBase64", NONE, "", 0))

\* a string that did not come straight from the encoder arrives
AudioActReceive ==
  \E how \in {"dataUri", "malformed"} :
    /\ audio.how = ""
    /\ AudioStep([audio EXCEPT !.how = how,
                               !.text = TextOf(audio.buf, audio.chunk, how)],
                 Op("receive", NONE, how, 0))

\* base64ToArrayBuffer(text)
AudioActDecode ==
  /\ audio.how # ""
  /\ ~audio.back.done
  /\ LET r == Base64ToArrayBuffer(audio.text)
     IN AudioStep([audio EXCEPT !.back = [ok |-> r.ok, bytes |-> r.bytes, done |-> TRUE]],
                  Op("base64ToArrayBuffer", NONE, IF r.ok THEN "" ELSE "throws", 0))

\* detectAudioFormat(text) and the playback hint playAudio derives from it
AudioActDetect ==
  /\ audio.how # ""
  /\ audio.format = ""
  /\ LET f == DetectAudioFormat(audio.text)
     IN AudioStep([audio EXCEPT !.format = f,
                                !.mime = GetMimeTypeFromFormat(f),
                                !.ext = AudioExtension(f)],
                  Op("detectAudioFormat", NONE, "", 0))

AudioNext ==
  \/ AudioActEncode
  \/ AudioActReceive
  \/ AudioActDecode
  \/ AudioActDetect

-----------------------------------------------------------------------------
(***************************************************************************)
(* The event bus of the event-listener service: on / off / emit /          *)
(* removeAllListeners of src/unnamed/part_002.  eventListeners maps a kind *)
(* to the array of its callbacks.                                          *)
(***************************************************************************)

\* callbacks registered over all kinds together
MaxListeners == 3

EventKinds == {"connect", "error"}

\* callbacks a screen may register: two that return, one that throws, one
\* that unregisters itself when called
Callbacks == {"f", "g", "boom", "quit"}

CallbackDoes(cb) ==
  CASE cb = "boom" -> "throws"
    [] cb = "quit" -> "off"
    [] OTHER       -> "returns"

BusInitObj ==
  [ listeners  |-> [k \in EventKinds |-> <<>>],
    kind       |-> "",        \* kind of the emission of the last step, "" if none
    before     |-> <<>>,      \* the kind's array when that emission started
    calls      |-> <<>>,      \* callbacks it invoked, in order
    propagated |-> FALSE ]    \* an exception left emit()

BusRegistered(b) == Len(b.listeners["connect"]) + Len(b.listeners["error"])

\* listeners.indexOf(callback), 0 for -1
BusIndexOf(list, cb) ==
  IF \E k \in 1..Len(list) : list[k] = cb
  THEN CHOOSE k \in 1..Len(list) : list[k] = cb /\ \A j \in 1..(k - 1) : list[j] # cb
  ELSE 0

\* the array after off(): splice(index, 1) of the first occurrence
BusSplice(list, cb) ==
  LET k == BusIndexOf(list, cb)
  IN IF k = 0 THEN list
     ELSE SubSeq(list, 1, k - 1) \o SubSeq(list, k + 1, Len(list))

\* on(event, callback)
BusOn(b, kind, cb) == [b EXCEPT !.listeners[kind] = Append(@, cb)]

\* off(event, callback)
BusOff(b, kind, cb) == [b EXCEPT !.listeners[kind] = BusSplice(@, cb)]

\* removeAllListeners()
BusRemoveAll(b) == [b EXCEPT !.listeners = [k \in EventKinds |-> <<>>]]

\* variant: forEach without the try/catch, a throw ends the emission
RECURSIVE BusForEachAborting(_, _, _, _)
BusForEachAborting(b, kind, k, len) ==
  IF k > len THEN b
  ELSE IF k > Len(b.listeners[kind]) THEN BusForEachAborting(b, kind, k + 1, len)
  ELSE LET cb == b.listeners[kind][k]
           b1 == [b EXCEPT !.calls = Append(@, cb)]
       IN IF CallbackDoes(cb) = "throws" THEN [b1 EXCEPT !.propagated = TRUE]
          ELSE IF CallbackDoes(cb) = "off"
          THEN BusForEachAborting(BusOff(b1, kind, cb), kind, k + 1, len)
          ELSE BusForEachAborting(b1, kind, k + 1, len)

\* listeners.forEach(callback => { try { callback(...args) } catch { log } }):
\* indices 1..len of the array as it is when each index is reached, len being
\* the length when forEach started
RECURSIVE BusForEach(_, _, _, _)
BusForEach(b, kind, k, len) ==
  IF k > len THEN b
  ELSE IF k > Len(b.listeners[kind]) THEN BusForEach(b, kind, k + 1, len)
  ELSE LET cb == b.listeners[kind][k]
           b1 == [b EXCEPT !.calls = Append(@, cb)]
       IN IF CallbackDoes(cb) = "throws"
          THEN BusForEach(b1, kind, k + 1, len)        \* caught and logged
          ELSE IF CallbackDoes(cb) = "off"
          THEN BusForEach(BusOff(b1, kind, cb), kind, k + 1, len)
          ELSE BusForEach(b1, kind, k + 1, len)

\* emit(event, ...args)
BusEmit(b, kind) ==
  BusForEach([b EXCEPT !.kind = kind, !.before = b.listeners[kind]],
             kind, 1, Len(b.listeners[kind]))

\* what the last step showed is forgotten when the next one starts
BusQuiet(b) == [b EXCEPT !.kind = "", !.before = <<>>, !.calls = <<>>, !.propagated = FALSE]

BusStep(b, o) ==
  /\ svc = "bus"
  /\ bus' = b
  /\ op' = o
  /\ UNCHANGED <<svc, buzz, bsock, btimers, bhist, wss, wsock, wtimers, whist, wjobs,
                 audio, play, emitted, wire>>

BusActOn ==
  \E kind \in EventKinds, cb \in Callbacks :
    /\ BusRegistered(bus) < MaxListeners
    /\ BusStep(BusOn(BusQuiet(bus), kind, cb), Op("on", NONE, kind, 0))

BusActOff ==
  \E kind \in EventKinds, cb \in Callbacks :
    BusStep(BusOff(BusQuiet(bus), kind, cb), Op("off", NONE, kind, 0))

BusActRemoveAll ==
  BusStep(BusRemoveAll(BusQuiet(bus)), Op("removeAllListeners", NONE, "", 0))

BusActEmit ==
  \E kind \in EventKinds :
    BusStep(BusEmit(BusQuiet(bus), kind), Op("emit", NONE, kind, 0))

BusNext ==
  \/ BusActOn
  \/ BusActOff
  \/ BusActRemoveAll
  \/ BusActEmit

-----------------------------------------------------------------------------
(***************************************************************************)
(* Playback of a received clip on React Native: playAudio,                 *)
(* playAudioReactNative and saveBase64Audio of                             *)
(* src/src/services/audio-service.ts, with the cache directory they write  *)
(* to.                                                                     *)
(***************************************************************************)

\* clips played in a run
MaxClips == 3

\* formats detectAudioFormat hands to saveBase64Audio
PlayFormats == {"m4a", "wav"}

\* how a playAudio call ends: without a player, with a write that throws,
\* with an empty file, with replace() or play() throwing, or ("") playing
PlayOutcomes == {"noPlayer", "writeFails", "emptyFile", "replaceFails", "playFails", ""}

PlayInitObj ==
  [ player  |-> FALSE,    \* this.player is set
    clock   |-> 0,        \* Date.now() at the last saveBase64Audio, in calls
    files   |-> {},       \* temp_audio_* files in the cache directory
    source  |-> 0,        \* the file the player's source points to, 0 if none
    playing |-> FALSE ]

\* saveBase64Audio(base64Data, format): writeAsStringAsync creates the file
SaveBase64Audio(p, format, written) ==
  IF written
  THEN [p EXCEPT !.clock = @ + 1,
                 !.files = @ \cup {[id |-> p.clock + 1, ext |-> AudioExtension(format)]}]
  ELSE [p EXCEPT !.clock = @ + 1]

\* playAudioReactNative(base64Audio) ending as `outcome`; a throw is
\* rethrown to playAudio
PlayAudioReactNative(p, format, outcome) ==
  IF ~p.player THEN p                       \* 'Player not initialized'
  ELSE LET p1 == SaveBase64Audio(p, format, outcome # "writeFails")
       IN IF outcome \in {"writeFails", "emptyFile", "replaceFails"} THEN p1
          ELSE IF outcome = "playFails" THEN [p1 EXCEPT !.source = p1.clock,
                                                        !.playing = FALSE]
          ELSE [p1 EXCEPT !.source = p1.clock, !.playing = TRUE]

\* callbacks playAudio makes for a call ending as `outcome`
PlayAudioCalls(p, outcome) ==
  IF ~p.player THEN <<>>
  ELSE IF outcome = "" THEN <<Ev("onPlaybackStart", "")>>
  ELSE <<Ev("onError", "Failed to play audio")>>

PlayStep(p, out, o) ==
  /\ svc = "play"
  /\ play' = p
  /\ emitted' = out
  /\ op' = o
  /\ UNCHANGED <<svc, buzz, bsock, btimers, bhist, wss, wsock, wtimers, whist, wjobs,
                 audio, bus, wire>>

\* initPlayer(player)
PlayActInitPlayer ==
  PlayStep([play EXCEPT !.player = TRUE], <<>>, Op("initPlayer", NONE, "", 0))

\* playAudio(base64Audio)
PlayActPlayAudio ==
  \E format \in PlayFormats, outcome \in PlayOutcomes :
    /\ play.clock < MaxClips
    /\ (outcome = "noPlayer") = ~play.player
    /\ PlayStep(PlayAudioReactNative(play, format, outcome),
                PlayAudioCalls(play, outcome),
                Op("playAudio", NONE, outcome, 0))

\* the player reports didJustFinish
PlayEvFinish ==
  /\ play.playing
  /\ PlayStep([play EXCEPT !.playing = FALSE], <<Ev("onPlaybackFinish", "")>>,
              Op("playbackFinish", NONE, "", 0))

\* cleanup(): the player is released
PlayActCleanup ==
  /\ play.player
  /\ PlayStep([play EXCEPT !.player = FALSE, !.source = 0, !.playing = FALSE], <<>>,
              Op("cleanup", NONE, "", 0))

PlayNext ==
  \/ PlayActInitPlayer
  \/ PlayActPlayAudio
  \/ PlayEvFinish
  \/ PlayActCleanup

-----------------------------------------------------------------------------
Init ==
  /\ svc \in {"buzz", "ws", "chat", "frames", "audio", "bus", "play"}
  /\ play = PlayInitObj
  /\ bus = BusInitObj
  /\ audio \in IF svc = "audio"
               THEN {AudioInit(b, c) : b \in Buffers, c \in {SmallChunk, ChunkSize}}
               ELSE {AudioInit(<<>>, ChunkSize)}
  /\ buzz = BuzzInitObj
  /\ bsock = [i \in SockIds |-> NoSock]
  /\ btimers = {}
  /\ bhist = [run |-> 0, fired |-> 0, dead |-> FALSE]
  /\ wss = WsInitObj
  /\ wsock = [i \in WsSockIds |-> WsNoSock]
  /\ wtimers = {}
  /\ whist = [fails |-> 0, quiet |-> FALSE]
  /\ wjobs = <<>>
  /\ op = Op("init", NONE, "", 0)
  /\ emitted = <<>>
  /\ wire = <<>>

Next == BuzzNext \/ WsNext \/ ChatNext \/ AudioNext \/ BusNext \/ PlayNext

Spec == Init /\ [][Next]_vars

InitBuzz == Init /\ svc = "buzz"

SpecBuzz == InitBuzz /\ [][BuzzNext]_vars

InitWs == Init /\ svc = "ws"

SpecWs == InitWs /\ [][WsNext]_vars

\* the event-listener service with the messages of its server
InitChat == Init /\ svc = "chat"

SpecChat == InitChat /\ [][ChatNext]_vars

\* one connection of the event-listener service, receiving every kind of frame
InitFrames == Init /\ svc = "frames"

SpecFrames == InitFrames /\ [][FramesNext]_vars

\* The callback-based service with a caller that registers callbacks and
\* calls connect(), and nothing else.  The platform reports on every
\* transport in the end (it opens, fails or completes its closing), and an
\* armed timer fires in the end; nothing obliges the caller to call.
BuzzTransportEvent == BuzzEvOpen \/ BuzzEvFail \/ BuzzEvClose

BuzzLiveNext ==
  \/ BuzzActSetCallbacks
  \/ BuzzActConnect
  \/ BuzzEvMessage
  \/ BuzzTransportEvent
  \/ BuzzEvTimer

SpecBuzzLive ==
  /\ InitBuzz
  /\ [][BuzzLiveNext]_vars
  /\ WF_vars(BuzzTransportEvent)
  /\ WF_vars(BuzzEvTimer)

\* both connection services with the messages of their servers
InitTalk == Init /\ svc \in {"buzz", "chat"}

TalkNext == BuzzNext \/ ChatNext

SpecTalk == InitTalk /\ [][TalkNext]_vars

\* both connection services
InitConn == Init /\ svc \in {"buzz", "ws"}

ConnNext == BuzzNext \/ WsNext

SpecConn == InitConn /\ [][ConnNext]_vars

InitBus == Init /\ svc = "bus"

SpecBus == InitBus /\ [][BusNext]_vars

InitPlay == Init /\ svc = "play"

SpecPlay == InitPlay /\ [][PlayNext]_vars

InitAudio == Init /\ svc = "audio"

SpecAudio == InitAudio /\ [][AudioNext]_vars

-----------------------------------------------------------------------------
(* Properties *)

BuzzLive == {i \in SockIds : bsock[i].readyState \in {CONNECTING, OPEN}}
WsLive == {i \in WsSockIds : wsock[i].readyState \in {CONNECTING, OPEN}}

HasEvent(e, a) == \E k \in 1..Len(emitted) : emitted[k] = Ev(e, a)

\* C1: in the event-listener service no second WebSocket is created while an
\* earlier one is CONNECTING or OPEN: at most one of the transports the
\* service created is CONNECTING or OPEN at any time.
C1_WsAtMostOneLiveTransport ==
  svc = "ws" => Cardinality(WsLive) <= 1

\* C2: in the callback-based service connect(url) is a no-op whenever
\* isConnecting is set or the current transport is CONNECTING or OPEN: it
\* creates no transport, changes no field (serverUrl, shouldReconnect,
\* reconnectAttempts, the reconnect timer) and calls nothing back; hence at
\* most one transport of the service is CONNECTING or OPEN.
C2_BuzzConnectIdempotent ==
  /\ [](Cardinality(BuzzLive) <= 1)
  /\ [][ ( /\ svc = "buzz"
           /\ op'.name = "connect"
           /\ \/ buzz.isConnecting
              \/ BuzzReadyState(BuzzWorld) \in {CONNECTING, OPEN} )
         => ( /\ bsock' = bsock
              /\ buzz' = buzz
              /\ btimers' = btimers
              /\ emitted' = <<>> ) ]_vars

C2_Witness ==
  /\ svc = "buzz"
  /\ op.name = "connect"
  /\ op.why = "connecting"
  /\ op.pre = CONNECTING
  /\ buzz.isConnecting
  /\ Cardinality(BuzzLive) = 1

\* C3 as stated: in the callback-based service, after maxReconnectAttempts
\* (5) consecutive abnormal closures (shouldReconnect set, no successful
\* open in between) onMaxRetryExceeded has fired exactly once and no
\* reconnect timer is scheduled.
C3_MaxRetryAfterFiveClosures ==
  (svc = "buzz" /\ bhist.run = BuzzMaxReconnectAttempts)
    => (bhist.fired = 1 /\ btimers = {})

\* C3 amended: the budget is spent one closure later.  Through the first
\* maxReconnectAttempts consecutive abnormal closures onMaxRetryExceeded does
\* not fire (each arms a reconnect timer); at closure maxReconnectAttempts + 1
\* it has fired exactly once and no reconnect timer is pending, nor is one
\* pending after any later closure of the run.
C3_MaxRetryAfterBudgetSpent ==
  svc = "buzz" =>
    /\ bhist.run \in 0..BuzzMaxReconnectAttempts => bhist.fired = 0
    /\ bhist.run = BuzzMaxReconnectAttempts + 1 => bhist.fired = 1
    /\ bhist.run > BuzzMaxReconnectAttempts => btimers = {}

C3_Witness ==
  /\ svc = "buzz"
  /\ bhist.run = BuzzMaxReconnectAttempts + 1
  /\ bhist.fired = 1
  /\ op.name \in {"fail", "close"}
  /\ HasEvent("onMaxRetryExceeded", "5")
  /\ btimers = {}

\* C4: in the event-listener service, once an established connection is lost
\* and the caller makes no further call, the failure notification
\* (error 'Failed to reconnect after multiple attempts') is emitted at most
\* once, and once it has been emitted no reconnect timer is pending.
C4_WsReconnectEndsCleanly ==
  (svc = "ws" /\ whist.quiet) =>
    /\ whist.fails <= 1
    /\ whist.fails = 1 => wtimers = {}

\* C5: in the callback-based service the delay armed for the n-th
\* consecutive reconnect attempt, n = 1..5, is min(1000 * 2^(n-1), 120000) ms:
\* 1000, 2000, 4000, 8000, 16000; n is the number of consecutive abnormal
\* closures so far.
C5_BuzzBackoffSchedule ==
  \A t \in btimers :
    /\ t.n \in 1..BuzzMaxReconnectAttempts
    /\ t.delay = Min(1000 * 2^(t.n - 1), 120000)
    /\ t.delay = <<1000, 2000, 4000, 8000, 16000>>[t.n]
    /\ bhist.run >= 1 => t.n = bhist.run

C5_Witness ==
  /\ svc = "buzz"
  /\ bhist.run = BuzzMaxReconnectAttempts
  /\ \E t \in btimers : t.n = BuzzMaxReconnectAttempts /\ t.delay = 16000

\* C6: in the event-listener service the delay armed for the n-th
\* consecutive reconnect attempt, n = 1..3, is min(1000 * 2^(n-1), 120000) ms;
\* the first retry waits 1000 ms.
C6_WsBackoffSchedule ==
  \A t \in wtimers :
    /\ t.n \in 1..WsMaxReconnectAttempts
    /\ t.delay = Min(1000 * 2^(t.n - 1), 120000)

\* C7: in the callback-based service two disconnect() calls in a row on a
\* connected service invoke onDisconnect exactly once in total, leave no
\* reconnect timer pending, and the second call changes no state.
C7_BuzzDisconnectTwice ==
  [][ ( /\ svc = "buzz"
        /\ buzz.callbacks
        /\ op.name = "disconnect"
        /\ op.pre = OPEN
        /\ op'.name = "disconnect" )
      => ( /\ CountEv(emitted, "onDisconnect") + CountEv(emitted', "onDisconnect") = 1
           /\ btimers' = {}
           /\ buzz' = buzz
           /\ bsock' = bsock ) ]_vars

\* C8: in the event-listener service two disconnect() calls in a row emit
\* exactly one 'disconnect' event in total and leave neither a reconnect
\* timer nor a connection timeout pending.
C8_WsDisconnectTwice ==
  [][ ( /\ svc = "ws"
        /\ op.name = "disconnect"
        /\ op.pre \in {CONNECTING, OPEN}
        /\ op'.name = "disconnect" )
      => ( /\ CountEv(emitted, "disconnect") + CountEv(emitted', "disconnect") = 1
           /\ wtimers' = {}
           /\ \A i \in WsSockIds : ~wsock'[i].timeout ) ]_vars

\* C9: in the event-listener service at most one 'disconnect' event is
\* emitted per transport closure, whether disconnect() started the closure
\* or the transport's close event reported it.
C9_WsOneDisconnectPerClosure ==
  \A i \in WsSockIds : wsock[i].discs <= 1

\* C10: in the event-listener service, when the connection timeout of a
\* connect() call fires on a transport that never responded, an 'error'
\* event of the ConnectionTimeout kind is emitted (and no 'connect' event).
C10_WsTimeoutEmitsError ==
  ( /\ svc = "ws"
    /\ op.name = "connectTimeout"
    /\ op.pre = CONNECTING
    /\ op.why = "timeout" )
  => ( /\ HasEvent("error", "Connection timeout")
       /\ ~HasEvent("connect", "") )

\* C11: in the callback-based service sendAudio(frame) and sendMessage(message)
\* called while the service is not Open fail with a NotConnected error that
\* reaches the caller (the calls return void and never throw, so: an onError
\* callback, callbacks being registered), and no frame is written.
C11_BuzzSendNotConnectedSurfaced ==
  ( /\ svc = "buzz"
    /\ op.name \in {"sendAudio", "sendMessage"}
    /\ op.why = "notConnected"
    /\ buzz.callbacks )
  => ( /\ wire = <<>>
       /\ CountEv(emitted, "onError") >= 1 )

\* C12 as stated: in the event-listener service sendAudio on a transport that
\* is not OPEN emits 'error' and rejects without writing; on an OPEN transport
\* it writes exactly one frame and emits no event on success; a synchronous
\* write failure emits 'error'.
C12_WsSendAudioNoEventOnSuccess ==
  (svc = "ws" /\ op.name = "sendAudio") =>
    /\ op.why = "notConnected" =>
         (CountEv(emitted, "error") = 1 /\ wire = <<>>)
    /\ op.why = "" => (Len(wire) = 1 /\ emitted = <<>>)
    /\ op.why = "failed" => CountEv(emitted, "error") = 1

\* C12 amended: on success sendAudio writes exactly one frame to the current
\* transport and emits exactly one event, a 'log' event ('Sent voice
\* message'), and no 'error'; when the transport is not OPEN it emits exactly
\* one 'error' ('Cannot send audio: not connected'), rejects and writes
\* nothing; when the data cannot be converted or the write throws it emits
\* exactly one 'error' ('Failed to send audio'), rejects and writes nothing.
C12_WsSendAudioLogsOnSuccess ==
  (svc = "ws" /\ op.name = "sendAudio") =>
    /\ op.why = "notConnected" <=> op.pre # OPEN
    /\ op.why = "notConnected" =>
         (emitted = <<Ev("error", "Cannot send audio: not connected")>> /\ wire = <<>>)
    /\ op.why = "" =>
         /\ wire = <<[sock |-> wss.ws, frame |-> "audio"]>>
         /\ emitted = <<Ev("log", "Sent voice message")>>
    /\ op.why = "failed" =>
         (emitted = <<Ev("error", "Failed to send audio")>> /\ wire = <<>>)

C12_Witness ==
  /\ svc = "ws"
  /\ op.name = "sendAudio"
  /\ op.pre = OPEN
  /\ op.why = ""
  /\ Len(wire) = 1
  /\ HasEvent("log", "Sent voice message")

\* C13: for every byte buffer B, the empty one and those spanning several
\* chunks of the encoder included, base64ToArrayBuffer(arrayBufferToBase64(B))
\* succeeds and equals B byte for byte, whatever signature B starts with.
C13_Base64RoundTrip ==
  (svc = "audio" /\ audio.how = "encoded" /\ audio.back.done)
    => (audio.back.ok /\ audio.back.bytes = audio.buf)

C13_Witness ==
  /\ svc = "audio"
  /\ audio.how = "encoded"
  /\ audio.back.done
  /\ audio.chunk = SmallChunk
  /\ Len(audio.buf) > 2 * SmallChunk
  /\ StartsWith(audio.buf, SigRIFF)
  /\ audio.back.bytes = audio.buf

\* C14: detectAudioFormat classifies every buffer whose bytes begin with
\* 'RIFF' and contain 'WAVE' as 'wav', and every buffer whose bytes begin
\* with 'OggS' as 'ogg', whatever other signatures ('ftyp', 'M4A', 'webm')
\* occur in the inspected header bytes.
C14_DetectWavAndOgg ==
  (svc = "audio" /\ audio.how \in {"encoded", "dataUri"} /\ audio.format # "") =>
    /\ (StartsWith(audio.buf, SigRIFF) /\ Includes(audio.buf, SigWAVE))
         => audio.format = "wav"
    /\ StartsWith(audio.buf, SigOggS) => audio.format = "ogg"

\* the buffer matches none of the m4a, webm, wav and ogg signatures
NoSignature(bytes) ==
  /\ ~(Includes(bytes, SigFtyp) /\ Includes(bytes, SigM4A))
  /\ ~Includes(bytes, SigWebm)
  /\ ~(StartsWith(bytes, SigRIFF) /\ Includes(bytes, SigWAVE))
  /\ ~StartsWith(bytes, SigOggS)

C17_BuzzDestroyIrreversible ==
  (svc = "buzz" /\ bhist.dead) =>
    /\ btimers = {}
    /\ buzz.reconnectTimeout = 0
    /\ buzz.ws = 0
    /\ \A i \in SockIds : ~bsock[i].handlers
    /\ wire = <<>>
    /\ emitted = <<>>

\* the world of an instance on which nothing but setCallbacks may have run
BuzzFreshWorld(callbacks) ==
  [ o      |-> [BuzzInitObj EXCEPT !.callbacks = callbacks],
    socks  |-> [i \in SockIds |-> NoSock],
    timers |-> {},
    hist   |-> [run |-> 0, fired |-> 0, dead |-> FALSE],
    out    |-> <<>>,
    wire   |-> <<>> ]

\* the fields reset() is to restore, and the transports and timers released
BuzzIsIdle ==
  /\ buzz.ws = 0
  /\ ~buzz.isConnecting
  /\ buzz.shouldReconnect
  /\ ~buzz.isDestroyed
  /\ buzz.reconnectAttempts = 0
  /\ buzz.serverUrl = ""
  /\ buzz.reconnectTimeout = 0
  /\ btimers = {}
  /\ \A i \in SockIds : ~bsock[i].handlers /\ bsock[i].readyState \notin {CONNECTING, OPEN}

\* the step is a connect(url) that does what connect(url) does in world f
BuzzConnectsAsIn(f) ==
  LET r == BuzzConnect(f, buzz'.serverUrl)
  IN /\ [buzz' EXCEPT !.ws = 0] = [r.o EXCEPT !.ws = 0]
     /\ (buzz'.ws = 0) = (r.o.ws = 0)
     /\ emitted' = r.out
     /\ btimers' = r.timers
     /\ wire' = r.wire
     /\ buzz'.ws # 0 =>
          /\ bsock'[buzz'.ws] = r.socks[r.o.ws]
          /\ BuzzLive' = {buzz'.ws}

\* C18 as stated: reset() called in any reachable state leaves ws = null,
\* isConnecting = false, shouldReconnect = true, isDestroyed = false,
\* reconnectAttempts = 0, serverUrl empty, no reconnect timer pending and the
\* previous transport's handlers detached; a connect() that follows behaves
\* as on a fresh instance.
C18_BuzzResetAsFresh ==
  /\ []((svc = "buzz" /\ op.name = "reset") => BuzzIsIdle)
  /\ [][ (svc = "buzz" /\ op.name = "reset" /\ op'.name = "connect")
         => BuzzConnectsAsIn(BuzzFreshWorld(FALSE)) ]_vars

\* C18 amended: as above, but reset() keeps the registered callbacks, and the
\* connect() that follows behaves as on a fresh instance on which the same
\* callbacks have been registered.
C18_BuzzResetKeepsCallbacks ==
  /\ []((svc = "buzz" /\ op.name = "reset") => BuzzIsIdle)
  /\ [][ (svc = "buzz" /\ op'.name = "reset") => buzz'.callbacks = buzz.callbacks ]_vars
  /\ [][ (svc = "buzz" /\ op.name = "reset" /\ op'.name = "connect")
         => BuzzConnectsAsIn(BuzzFreshWorld(buzz.callbacks)) ]_vars

C18_Witness ==
  /\ svc = "buzz"
  /\ op.name = "reset"
  /\ op.pre = OPEN
  /\ buzz.callbacks
  /\ BuzzIsIdle
  /\ \E i \in SockIds : bsock[i].readyState = CLOSING

\* C19: in the event bus emit(kind) invokes the handlers registered for the
\* kind in registration order, and a handler that throws neither keeps the
\* remaining handlers of the emission from running nor lets its exception
\* reach the caller of emit.  (Emissions during which a handler changes the
\* kind's array are left aside here.)
C19_BusEmitInOrderIsolated ==
  (svc = "bus" /\ op.name = "emit") =>
    /\ ~bus.propagated
    /\ bus.kind = op.why
    /\ bus.listeners[bus.kind] = bus.before => bus.calls = bus.before
    /\ \A i \in 1..Len(bus.calls) :
         \E j \in 1..Len(bus.before) : bus.before[j] = bus.calls[i]

C19_Witness ==
  /\ svc = "bus"
  /\ op.name = "emit"
  /\ bus.before = <<"f", "boom", "g">>
  /\ bus.calls = <<"f", "boom", "g">>
  /\ ~bus.propagated

\* C20: every temporary file the React Native playback path materializes is
\* deleted, after the player has consumed the clip and when a step after the
\* write (size verification, replace, play) fails: whenever no clip is
\* playing, no temporary file is left in the cache directory.
C20_TempFilesDeleted ==
  (svc = "play" /\ ~play.playing) => play.files = {}

\* C21: in the event-listener service a text payload that is not JSON is
\* taken for fallback audio, its text emitted unchanged as 'audio_received'
\* with no 'error', exactly when its length is at least 1000; a shorter one
\* emits 'error' (invalid message format) and no 'audio_received'.
C21_WsTextFallbackFromThreshold ==
  ( /\ svc \in {"chat", "frames"}
    /\ op.name = "message"
    /\ op.why = "" )
  => IF op.code >= AudioStringLen
     THEN /\ HasEvent("audio_received", AsText(op.code))
          /\ CountEv(emitted, "error") = 0
     ELSE /\ HasEvent("error", "Invalid message format")
          /\ CountEv(emitted, "audio_received") = 0

\* C22: in both services the handling of one inbound message (a control
\* message, a message of unknown type, a text that cannot be parsed, a binary
\* frame, and the conversion of a Blob it started) leaves the connection as
\* it is: the transport handle, the connected / connecting flags, the retry
\* counter and every other field, the armed timers and the state of every
\* transport are unchanged.
C22_MessageLeavesConnection ==
  [][ op'.name \in {"message", "blob"} =>
        /\ buzz' = buzz
        /\ btimers' = btimers
        /\ \A i \in SockIds : bsock'[i].readyState = bsock[i].readyState
        /\ wss' = wss
        /\ wtimers' = wtimers
        /\ \A i \in WsSockIds :
             /\ wsock'[i].readyState = wsock[i].readyState
             /\ wsock'[i].timeout = wsock[i].timeout ]_vars

C22_Witness ==
  /\ svc = "chat"
  /\ op.name = "message"
  /\ op.why = ""
  /\ HasEvent("error", "Invalid message format")
  /\ wss.isConnected
  /\ WsReadyState(WsWorld) = OPEN
  /\ wtimers # {}

\* C23: in the callback-based service reconnectAttempts is incremented
\* before each reconnect timer is scheduled (the new timer carries the
\* incremented count), and a counter above 0 goes back to 0 only in the step
\* of a transport's open event: not in disconnect(), stopReconnecting(),
\* connect(), a close or an error event (reset() and destroy(), which end the
\* use of the instance, set aside).
C23_BuzzCounterResetOnlyByOpen ==
  [][ /\ \A t \in btimers' \ btimers :
           /\ buzz'.reconnectAttempts = buzz.reconnectAttempts + 1
           /\ t.n = buzz'.reconnectAttempts
      /\ (buzz.reconnectAttempts > 0 /\ buzz'.reconnectAttempts = 0)
           => op'.name \in {"open", "reset", "destroy"} ]_vars

\* C24: in the callback-based service a reconnect timer never takes effect
\* after it was cancelled or superseded: every stopReconnecting(),
\* disconnect(), destroy(), reset() or explicit connect() leaves no reconnect
\* timer armed, so that a timer firing later was scheduled after the call;
\* and a timer that fires creates a transport only while reconnection is
\* wanted (shouldReconnect set, instance not destroyed) and no transport is
\* live.
C24_BuzzCancelledTimerNeverActs ==
  [][ /\ op'.name \in {"stopReconnecting", "disconnect", "destroy", "reset", "connect"}
           => btimers' = {}
      /\ (op'.name = "reconnectTimer" /\ NextSock(bsock') # NextSock(bsock))
           => /\ buzz.shouldReconnect
              /\ ~buzz.isDestroyed
              /\ BuzzLive = {} ]_vars

C24_Witness ==
  /\ svc = "buzz"
  /\ op.name = "stopReconnecting"
  /\ op.pre = CLOSED
  /\ buzz.ws = 1
  /\ buzz.reconnectAttempts = 1
  /\ buzz.reconnectTimeout = 0
  /\ btimers = {}

\* C25: in the event-listener service an explicit connect() that is not a
\* no-op cancels any pending reconnect timer before it opens the transport:
\* no reconnect timer is armed after the call, so none scheduled before it
\* fires afterwards nor opens a second transport.
C25_WsConnectCancelsTimer ==
  [][ (svc = "ws" /\ op'.name = "connect" /\ op'.why = "")
        => (wtimers' = {} /\ wss'.reconnectTimeout = 0) ]_vars

\* C26: in the event-listener service no reconnect timer is pending after
\* disconnect(), and the later close event of the transport disconnect()
\* closed, whatever its code, arms no reconnect timer and creates no
\* transport while connect() has not been called again (the handle is still
\* null).
C26_WsDisconnectEndsReconnection ==
  [][ /\ (svc = "ws" /\ op'.name = "disconnect") => wtimers' = {}
      /\ ( /\ svc = "ws"
           /\ op'.name \in {"close", "fail"}
           /\ wss.ws = 0
           /\ \E i \in WsSockIds :
                /\ wsock[i].readyState = CLOSING
                /\ wsock[i].discs >= 1
                /\ wsock'[i].readyState = CLOSED )
         => (wtimers' \subseteq wtimers /\ WsNextSock(wsock') = WsNextSock(wsock)) ]_vars

\* C27: in the event-listener service disconnect() writes the end_session
\* message only when the current transport is OPEN; in every other state
\* (none, connecting, closing, closed but still referenced) it writes
\* nothing and emits no 'error' event; in all cases the stored profile is
\* cleared.
C27_WsDisconnectQuietUnlessOpen ==
  (svc = "ws" /\ op.name = "disconnect") =>
    /\ op.pre = OPEN => Len(wire) = 1 /\ wire[1].frame = "end_session"
    /\ op.pre # OPEN => wire = <<>> /\ CountEv(emitted, "error") = 0
    /\ ~wss.currentProfile

\* a connection attempt of the callback-based service has come to an end:
\* the transport opened (onConnect), or it was closed normally, or
\* onMaxRetryExceeded was reported; or the run has used every transport the
\* model provides
BuzzResolved ==
  \/ op.name = "open" /\ HasEvent("onConnect", "")
  \/ op.name = "close" /\ op.code = NormalClosure /\ HasEvent("onDisconnect", "")
  \/ CountEv(emitted, "onMaxRetryExceeded") >= 1
  \/ NextSock(bsock) = 0

\* C28: in the callback-based service, with callbacks registered and a
\* caller that only calls connect(), every connect(url) that goes on is
\* followed, transports reporting and timers firing in the end, by an open
\* transport (onConnect), a normal closure, or onMaxRetryExceeded; and
\* isConnecting never stays set for ever.
C28_BuzzAttemptResolves ==
  /\ (svc = "buzz" /\ op.name = "connect" /\ op.why = "" /\ buzz.callbacks)
       ~> BuzzResolved
  /\ []<>(~buzz.isConnecting)

\* C29: in the event-listener service the events of one connection come in
\* the order connect, the events of its messages in arrival order,
\* disconnect; in particular the 'audio_received' event of a frame is never
\* emitted after the events of a message that arrived later on the same
\* connection, nor after the 'disconnect' event of that connection: when the
\* conversion of a received Blob ends and emits 'audio_received', nothing of
\* the kind has happened since the Blob arrived.
C29_WsAudioReceivedInOrder ==
  ( /\ svc = "chat"
    /\ op.name = "blob"
    /\ CountEv(emitted, "audio_received") >= 1 )
  => op.why = ""

\* C30: in both services the step of a transport's open event ends with the
\* retry counter at 0 and the service marked connected (callback-based:
\* isConnecting cleared and the current transport OPEN; event-listener:
\* isConnected set), and delivers exactly one connect event (onConnect when
\* callbacks are registered; 'connect').  In the event-listener service the
\* connection timeout of the attempt is cancelled by then: no OPEN transport
\* has its timeout armed, so no timeout closes an opened transport.
C30_OpenResetsAndConnects ==
  /\ (svc = "buzz" /\ op.name = "open") =>
       /\ buzz.reconnectAttempts = 0
       /\ ~buzz.isConnecting
       /\ BuzzReadyState(BuzzWorld) = OPEN
       /\ CountEv(emitted, "onConnect") = IF buzz.callbacks THEN 1 ELSE 0
  /\ (svc \in {"ws", "chat"} /\ op.name = "open") =>
       /\ wss.reconnectAttempts = 0
       /\ wss.isConnected
       /\ CountEv(emitted, "connect") = 1
  /\ \A i \in WsSockIds : wsock[i].readyState = OPEN => ~wsock[i].timeout

C30_Witness ==
  /\ svc = "chat"
  /\ op.name = "open"
  /\ wss.isConnected
  /\ wss.reconnectAttempts = 0
  /\ HasEvent("connect", "")
  /\ wtimers # {}

\* C31: in the event-listener service a failed transport triggers
\* attemptReconnect() at most once: in the step that handles its failure
\* (error and close, a timeout, an abnormal close) reconnectAttempts grows by
\* at most 1, and at most one reconnect timer is pending at any time.
C31_WsOneReconnectPerFailure ==
  /\ [][ (svc = "ws" /\ op'.name \in {"fail", "close", "connectTimeout"})
           => wss'.reconnectAttempts <= wss.reconnectAttempts + 1 ]_vars
  /\ [](svc = "ws" => Cardinality(wtimers) <= 1)

\* C32: in the callback-based service at most one reconnect timer is pending
\* in every reachable state, and a pending timer implies shouldReconnect set,
\* isDestroyed clear, reconnectAttempts >= 1 and no transport CONNECTING or
\* OPEN.
C32_BuzzPendingTimerState ==
  svc = "buzz" =>
    /\ Cardinality(btimers) <= 1
    /\ btimers # {} =>
         /\ buzz.shouldReconnect
         /\ ~buzz.isDestroyed
         /\ buzz.reconnectAttempts >= 1
         /\ BuzzLive = {}
         /\ \A t \in btimers : t.id = buzz.reconnectTimeout

C32_Witness ==
  /\ svc = "buzz"
  /\ Cardinality(btimers) = 1
  /\ buzz.reconnectAttempts = 2
  /\ op.name = "fail"

\* what stopReconnecting() and a later abnormal close do in the callback-based
\* service: stopReconnecting() leaves no timer armed and shouldReconnect
\* clear, and the current transport, every transport's state and handlers,
\* reconnectAttempts, isConnecting and the callbacks as they were; an
\* abnormal close handled while shouldReconnect is clear arms no timer
BuzzStopKeepsConnection ==
  /\ op'.name = "stopReconnecting" =>
       /\ btimers' = {}
       /\ ~buzz'.shouldReconnect
       /\ buzz' = [buzz EXCEPT !.shouldReconnect = FALSE, !.reconnectTimeout = 0]
       /\ bsock' = bsock
       /\ emitted' = <<>>
  /\ (op'.name \in {"close", "fail"} /\ ~buzz.shouldReconnect) => btimers' = {}

\* C33 as stated: stopReconnecting() cancels the timer and clears
\* shouldReconnect and leaves the rest; an abnormal close arriving afterwards
\* schedules no reconnect; and the next explicit connect() re-enables
\* reconnection.
C33_BuzzStopThenAnyConnect ==
  [][ svc = "buzz" =>
        /\ BuzzStopKeepsConnection
        /\ (op'.name = "connect" /\ ~buzz.isDestroyed) => buzz'.shouldReconnect ]_vars

\* C33 amended: the same, with reconnection re-enabled by the next explicit
\* connect() that is not a no-op; a connect() that returns early (destroyed,
\* already connecting, already open) leaves shouldReconnect clear.
C33_BuzzStopThenEffectiveConnect ==
  [][ svc = "buzz" =>
        /\ BuzzStopKeepsConnection
        /\ (op'.name = "connect" /\ op'.why = "") => buzz'.shouldReconnect
        /\ (op'.name = "connect" /\ op'.why # "")
             => buzz'.shouldReconnect = buzz.shouldReconnect ]_vars

C33_Witness ==
  /\ svc = "buzz"
  /\ op.name \in {"close", "fail"}
  /\ op.code # NormalClosure
  /\ HasEvent("onDisconnect", "")
  /\ ~buzz.shouldReconnect
  /\ ~buzz.isDestroyed
  /\ buzz.reconnectAttempts >= 1
  /\ btimers = {}


\* C34: in the event-based service, isConnected implies that this.ws is set
\* and OPEN, at most one transport is CONNECTING or OPEN, and a close or
\* failure of a transport other than the current one, while the current one
\* stays OPEN, neither clears isConnected nor arms a reconnect timer.
C34_WsConnectedMeansCurrentOpen ==
  /\ [](svc = "ws" =>
          /\ wss.isConnected => (wss.ws # 0 /\ wsock[wss.ws].readyState = OPEN)
          /\ Cardinality(WsLive) <= 1)
  /\ [][ ( /\ svc = "ws"
           /\ op'.name \in {"close", "fail"}
           /\ wss.isConnected
           /\ wss.ws # 0
           /\ wss'.ws = wss.ws
           /\ wsock[wss.ws].readyState = OPEN
           /\ wsock'[wss.ws].readyState = OPEN )
         => (wss'.isConnected /\ wtimers' = wtimers) ]_vars


\* C35: in the callback-based service only the current transport can have
\* handlers attached, so at most one transport has; and an open, close or
\* failure event of a transport other than the current one invokes no
\* callback, leaves every field of the service (isConnecting and
\* reconnectAttempts among them) as it was and arms no reconnect timer.
C35_BuzzSupersededTransportSilent ==
  /\ [](svc = "buzz" =>
          /\ \A i \in SockIds : bsock[i].handlers => i = buzz.ws
          /\ Cardinality({i \in SockIds : bsock[i].handlers}) <= 1)
  /\ [][ ( /\ svc = "buzz"
           /\ op'.name \in {"open", "close", "fail"}
           /\ \/ buzz.ws = 0
              \/ bsock'[buzz.ws].readyState = bsock[buzz.ws].readyState )
         => (emitted' = <<>> /\ buzz' = buzz /\ btimers' = btimers) ]_vars

C35_Witness ==
  /\ svc = "buzz"
  /\ op.name = "close"
  /\ op.pre = CONNECTING
  /\ buzz.callbacks
  /\ buzz.isConnecting
  /\ buzz.ws # 0
  /\ bsock[buzz.ws].readyState = CONNECTING
  /\ bsock[buzz.ws].handlers
  /\ \E i \in SockIds : i # buzz.ws /\ bsock[i].readyState = CLOSED /\ ~bsock[i].handlers
  /\ emitted = <<>>


\* C36: the retry counter stays within its budget in both services:
\* 0 <= reconnectAttempts <= 5 in the callback-based service and
\* 0 <= reconnectAttempts <= 3 in the event-based one, in every state.
C36_ReconnectAttemptsWithinBudget ==
  /\ svc = "buzz" =>
       (buzz.reconnectAttempts >= 0 /\ buzz.reconnectAttempts <= BuzzMaxReconnectAttempts)
  /\ svc \in {"ws", "chat"} =>
       (wss.reconnectAttempts >= 0 /\ wss.reconnectAttempts <= WsMaxReconnectAttempts)

C36_Witness ==
  \/ /\ svc = "buzz"
     /\ buzz.reconnectAttempts = BuzzMaxReconnectAttempts
     /\ HasEvent("onMaxRetryExceeded", "5")
  \/ /\ svc = "ws"
     /\ wss.reconnectAttempts = WsMaxReconnectAttempts
     /\ HasEvent("error", ReconnectFailed)


BusCount(list, cb) == Cardinality({k \in 1..Len(list) : list[k] = cb})

\* C37: after an emission of the event bus, every callback registered for
\* the kind when the emission started and not removed during it (it has as
\* many registrations after the emission as before) has been invoked once
\* per registration, a callback registered twice being invoked twice; and
\* off() removes at most one registration, on() adds exactly one.
C37_BusOffDuringEmitSkipsNobody ==
  /\ [](svc = "bus" /\ bus.kind # "" =>
          \A cb \in Callbacks :
            BusCount(bus.listeners[bus.kind], cb) = BusCount(bus.before, cb)
              => BusCount(bus.calls, cb) = BusCount(bus.before, cb))
  /\ [][ svc = "bus" =>
           \A kind \in EventKinds :
             /\ op'.name = "off" =>
                  Len(bus'.listeners[kind]) >= Len(bus.listeners[kind]) - 1
             /\ (op'.name = "on" /\ op'.why = kind) =>
                  Len(bus'.listeners[kind]) = Len(bus.listeners[kind]) + 1 ]_vars


\* retries are available to the callback-based service: it is not destroyed
\* and the budget is not used up
BuzzRetriesAvailable(b) ==
  ~b.isDestroyed /\ b.reconnectAttempts < BuzzMaxReconnectAttempts

\* C38: in the callback-based service connect() leaves reconnectAttempts as
\* it is; an abnormal close handled while reconnectAttempts is at the
\* maximum arms no reconnect timer and invokes onMaxRetryExceeded (again,
\* when it follows a caller's connect() after the budget was used up); and
\* retries become available again only by a successful open, disconnect()
\* or reset().
C38_BuzzConnectKeepsBudget ==
  [][ svc = "buzz" =>
        /\ op'.name = "connect" => buzz'.reconnectAttempts = buzz.reconnectAttempts
        /\ ( /\ op'.name \in {"close", "fail"}
             /\ op'.code # NormalClosure
             /\ buzz.reconnectAttempts = BuzzMaxReconnectAttempts
             /\ \E k \in 1..Len(emitted') : emitted'[k] = Ev("onDisconnect", "") )
           => /\ btimers' = {}
              /\ buzz'.reconnectAttempts = BuzzMaxReconnectAttempts
              /\ \E k \in 1..Len(emitted') : emitted'[k] = Ev("onMaxRetryExceeded", "5")
        /\ (~BuzzRetriesAvailable(buzz) /\ BuzzRetriesAvailable(buzz'))
             => op'.name \in {"open", "disconnect", "reset"} ]_vars

C38_Witness ==
  /\ svc = "buzz"
  /\ op.name = "fail"
  /\ op.pre = CONNECTING
  /\ buzz.reconnectAttempts = BuzzMaxReconnectAttempts
  /\ buzz.shouldReconnect
  /\ btimers = {}
  /\ HasEvent("onMaxRetryExceeded", "5")
  /\ bhist.fired >= 2


\* find_match requests put on the wire by the last step
WsFindMatchSent(frames) ==
  Cardinality({k \in 1..Len(frames) : frames[k].frame = "find_match"})

\* C39: in the event-based service, when the transport created by the
\* reconnect callback opens, exactly one find_match request is sent if a
\* profile is stored and none otherwise; the stored profile is set only by
\* findMatch() on a connected service and cleared only by disconnect().
C39_WsResumeMatchingOnce ==
  [][ (svc \in {"ws", "chat"}) =>
        /\ \A i \in WsSockIds :
             ( /\ op'.name = "open"
               /\ wsock[i].readyState = CONNECTING
               /\ wsock'[i].readyState = OPEN
               /\ wsock[i].awaiter = "reconnect"
               /\ wsock[i].promise = "pending" )
             => WsFindMatchSent(wire') = IF wss.currentProfile THEN 1 ELSE 0
        /\ (~wss.currentProfile /\ wss'.currentProfile)
             => (op'.name = "findMatch" /\ wss.isConnected)
        /\ (wss.currentProfile /\ ~wss'.currentProfile)
             => op'.name = "disconnect" ]_vars


\* the events of a sequence that are not 'log' events
NotLogEvent(e) == e.ev # "log"

NonLog(events) == SelectSeq(events, NotLogEvent)

\* what handleJsonMessage() emits for control message m in the present state
WsControlEvents(m) == WsHandleJsonMessage(WsWorld, m).out

\* C40: in the event-based service each control message produces a fixed
\* sequence of events ('log' events apart): partner_disconnected emits
\* 'partner_disconnected' and then 'match_ended' with the reason
\* 'Partner disconnected'; match_found without a partner and stats_update
\* without stats emit nothing at all; match_ended, no_matches and error emit
\* exactly one event of their own kind; 'connected' emits no 'connect' event.
C40_WsControlMessageEvents ==
  svc = "frames" =>
    \A m \in {f \in WsFrames : f.kind = "text" /\ f.type \in JsonTypes} :
      LET out == WsControlEvents(m)
      IN /\ m.type = "partner_disconnected" =>
              NonLog(out) = <<Ev("partner_disconnected", ""),
                              Ev("match_ended", "Partner disconnected")>>
         /\ (m.type \in {"match_found", "stats_update"} /\ ~m.full) => out = <<>>
         /\ m.type = "match_found" /\ m.full => NonLog(out) = <<Ev("match_found", "partner")>>
         /\ m.type = "stats_update" /\ m.full => NonLog(out) = <<Ev("stats_update", "stats")>>
         /\ m.type \in {"match_ended", "no_matches", "error"} =>
              (Len(NonLog(out)) = 1 /\ NonLog(out)[1].ev = m.type)
         /\ m.type = "connected" =>
              (NonLog(out) = <<>> /\ \A k \in 1..Len(out) : out[k].ev # "connect")

C40_Witness ==
  /\ svc = "frames"
  /\ op.name = "message"
  /\ op.why = "partner_disconnected"
  /\ wss.isConnected
  /\ NonLog(emitted) = <<Ev("partner_disconnected", ""),
                         Ev("match_ended", "Partner disconnected")>>

====
